---------------------------- MODULE Spec2Model ----------------------------
(***************************************************************************)
(* A model of the commit-message generation core of gims:                  *)
(*   - AIProviderManager (bin/lib/ai/providers.js): response cache,        *)
(*     provider chain, local heuristic, message normaliser;                *)
(*   - the content reducer and final guard of the 0.4.3 generateCommit-    *)
(*     Message (bin/gims.js, lines 46-152).                                *)
(*                                                                         *)
(* JavaScript strings are modelled as run-length encoded character         *)
(* sequences: a string is a sequence of runs [c |-> character, n |-> how   *)
(* many times], no run empty and no two neighbouring runs of the same      *)
(* character, so that equal strings have equal encodings and the lengths   *)
(* the code compares against (1000, 400000) keep their real values.        *)
(***************************************************************************)
EXTENDS Integers, Sequences, FiniteSets, TLC

(***************************************************************************)
(* Strings                                                                 *)
(***************************************************************************)
Run(c, n) == [c |-> c, n |-> n]

EmptyStr == << >>

\* a + b, both canonical: only the runs that meet can merge
Concat(a, b) ==
    IF a = << >> THEN b
    ELSE IF b = << >> THEN a
    ELSE IF a[Len(a)].c = b[1].c
         THEN SubSeq(a, 1, Len(a) - 1) \o <<Run(b[1].c, a[Len(a)].n + b[1].n)>> \o Tail(b)
         ELSE a \o b

RECURSIVE CanonRange(_, _, _)
\* The canonical encoding of the runs lo..hi of s: empty runs dropped,
\* neighbouring runs of one character merged (by halves, to keep the
\* evaluation shallow).
CanonRange(s, lo, hi) ==
    IF lo > hi THEN << >>
    ELSE IF lo = hi THEN (IF s[lo].n = 0 THEN << >> ELSE <<s[lo]>>)
    ELSE LET mid == (lo + hi) \div 2
         IN  Concat(CanonRange(s, lo, mid), CanonRange(s, mid + 1, hi))

Canon(s) == CanonRange(s, 1, Len(s))

\* A literal, written as the tuple of its characters.
Lit(chars) == Canon([i \in 1..Len(chars) |-> Run(chars[i], 1)])

\* c repeated n times.
Rep(c, n) == Canon(<<Run(c, n)>>)

RECURSIVE LenRange(_, _, _)
\* the number of characters in the runs lo..hi of s
LenRange(s, lo, hi) ==
    IF lo > hi THEN 0
    ELSE IF lo = hi THEN s[lo].n
    ELSE LET mid == (lo + hi) \div 2
         IN  LenRange(s, lo, mid) + LenRange(s, mid + 1, hi)

\* String.prototype.length
StrLen(s) == LenRange(s, 1, Len(s))

RECURSIVE ConcatAll(_)
\* the parts of a template literal, joined
ConcatAll(ss) == IF ss = << >> THEN << >> ELSE Concat(Head(ss), ConcatAll(Tail(ss)))

\* String.prototype.substring(0, k): the runs that fit whole, and of the
\* next run what is left of k
Prefix(s, k) ==
    LET whole == CHOOSE m \in 0..Len(s) :
                    /\ LenRange(s, 1, m) <= k
                    /\ m < Len(s) => LenRange(s, 1, m + 1) > k
        left == k - LenRange(s, 1, whole)
    IN  IF k <= 0 THEN << >>
        ELSE SubSeq(s, 1, whole)
             \o (IF whole < Len(s) /\ left > 0 THEN <<Run(s[whole + 1].c, left)>> ELSE << >>)

RECURSIVE ExpandRange(_, _, _)
ExpandRange(s, lo, hi) ==
    IF lo > hi THEN << >>
    ELSE IF lo = hi THEN [i \in 1..s[lo].n |-> s[lo].c]
    ELSE LET mid == (lo + hi) \div 2
         IN  ExpandRange(s, lo, mid) \o ExpandRange(s, mid + 1, hi)

\* The plain character sequence of a (short) string.
Expand(s) == ExpandRange(s, 1, Len(s))

\* String.prototype.startsWith(c) for a one-character c
StartsWithChar(s, c) == s # << >> /\ Head(s).c = c

\* String.prototype.includes(p), both canonical, p not empty: p's first run
\* ends a run of s, its inner runs are runs of s, its last run starts one.
Includes(s, p) ==
    LET m == Len(p)
    IN  IF m = 1
        THEN \E i \in 1..Len(s) : s[i].c = p[1].c /\ s[i].n >= p[1].n
        ELSE \E i \in 1..(Len(s) - m + 1) :
                /\ s[i].c = p[1].c /\ s[i].n >= p[1].n
                /\ \A j \in 2..(m - 1) : s[i + j - 1] = p[j]
                /\ s[i + m - 1].c = p[m].c /\ s[i + m - 1].n >= p[m].n

\* (s.match(/p/g) || []).length for a literal p of at least two runs no
\* proper suffix of which is a prefix of it (matches cannot overlap).
CountMatches(s, p) ==
    LET m == Len(p)
    IN  Cardinality({ i \in 1..(Len(s) - m + 1) :
                /\ s[i].c = p[1].c /\ s[i].n >= p[1].n
                /\ \A j \in 2..(m - 1) : s[i + j - 1] = p[j]
                /\ s[i + m - 1].c = p[m].c /\ s[i + m - 1].n >= p[m].n })

NL == "\n"

RECURSIVE SplitRange(_, _, _)
\* the lines of the runs lo..hi of s: a run of n line breaks ends n lines,
\* and the last line of one half goes on in the first line of the other
SplitRange(s, lo, hi) ==
    IF lo > hi THEN << << >> >>
    ELSE IF lo = hi
         THEN (IF s[lo].c = NL THEN [i \in 1..(s[lo].n + 1) |-> << >>] ELSE << <<s[lo]>> >>)
    ELSE LET mid == (lo + hi) \div 2
             l == SplitRange(s, lo, mid)
             r == SplitRange(s, mid + 1, hi)
         IN  SubSeq(l, 1, Len(l) - 1) \o <<Concat(l[Len(l)], r[1])>> \o Tail(r)

\* String.prototype.split('\n'): the list of lines, always at least one.
SplitLines(s) == SplitRange(s, 1, Len(s))

\* lines.filter(l => l.startsWith(c)).length
CountStartingWith(lines, c) ==
    Cardinality({ i \in 1..Len(lines) : StartsWithChar(lines[i], c) })

Digit(d) == <<"0", "1", "2", "3", "4", "5", "6", "7", "8", "9">>[d + 1]

RECURSIVE NumChars(_)
NumChars(n) == IF n < 10 THEN <<Digit(n)>> ELSE NumChars(n \div 10) \o <<Digit(n % 10)>>

\* the template text of a non-negative integer n
NumToStr(n) == Lit(NumChars(n))

LowerCase == <<"a","b","c","d","e","f","g","h","i","j","k","l","m",
               "n","o","p","q","r","s","t","u","v","w","x","y","z">>

UpperCase == <<"A","B","C","D","E","F","G","H","I","J","K","L","M",
               "N","O","P","Q","R","S","T","U","V","W","X","Y","Z">>

\* String.prototype.toUpperCase() of one character (ASCII)
ToUpperChar(c) ==
    IF \E i \in 1..26 : LowerCase[i] = c
    THEN UpperCase[CHOOSE i \in 1..26 : LowerCase[i] = c]
    ELSE c

\* s.charAt(0).toUpperCase() + s.slice(1)
Capitalize(s) ==
    IF s = << >> THEN << >>
    ELSE Canon(<<Run(ToUpperChar(Head(s).c), 1), Run(Head(s).c, Head(s).n - 1)>> \o Tail(s))

(***************************************************************************)
(* The message normaliser, AIProviderManager.cleanCommitMessage.  Its      *)
(* regular expressions are computed on the plain character sequence of the *)
(* message, each as the left-to-right scan String.prototype.replace makes: *)
(* at a position where the expression matches, the match is replaced and   *)
(* the scan goes on behind it, elsewhere the character is kept.            *)
(***************************************************************************)
\* \s, over the characters of the model
IsWs(c) == c \in {" ", "\t", "\n", "\r"}

\* a line terminator: what "." does not match and "^" (flag m) follows
IsLineTerm(c) == c \in {"\n", "\r"}

IsDigit(c) == c \in {"0", "1", "2", "3", "4", "5", "6", "7", "8", "9"}

\* the backquote, U+0060, one character of the model
BQ == "U+0060"

\* U+1F680, one character of the model
Rocket == "U+1F680"

\* a character of [\u{1F300}-\u{1FAFF}]
IsEmoji(c) == c \in {Rocket}

MinOf(S) == CHOOSE x \in S : \A y \in S : x <= y

\* the first index from i on that holds no whitespace (Len(p) + 1 if none)
SkipWs(p, i) == MinOf({ k \in i..(Len(p) + 1) : k = Len(p) + 1 \/ ~IsWs(p[k]) })

\* the first index from i on that holds no digit
SkipDigits(p, i) == MinOf({ k \in i..(Len(p) + 1) : k = Len(p) + 1 \/ ~IsDigit(p[k]) })

\* the first index from i on that holds no "#"
SkipHashes(p, i) == MinOf({ k \in i..(Len(p) + 1) : k = Len(p) + 1 \/ p[k] # "#" })

\* "^" with flag m
LineStart(p, i) == i = 1 \/ IsLineTerm(p[i - 1])

\* w copies of c stand at i
IsAt(p, i, c, w) == i + w - 1 <= Len(p) /\ \A k \in 0..(w - 1) : p[i + k] = c

RECURSIVE StripFences(_, _)
\* .replace(/BQBQBQ[\s\S]*?BQBQBQ/g, ''), BQ the backquote
StripFences(p, i) ==
    IF i > Len(p) THEN << >>
    ELSE LET close == { j \in (i + 3)..Len(p) : IsAt(p, j, BQ, 3) }
         IN  IF IsAt(p, i, BQ, 3) /\ close # {}
             THEN StripFences(p, MinOf(close) + 3)
             ELSE <<p[i]>> \o StripFences(p, i + 1)

RECURSIVE StripInlineCode(_, _)
\* .replace(/BQ([^BQ]+)BQ/g, '$1'), BQ the backquote
StripInlineCode(p, i) ==
    IF i > Len(p) THEN << >>
    ELSE LET close == { j \in (i + 2)..Len(p) : p[j] = BQ }
         IN  IF p[i] = BQ /\ i < Len(p) /\ p[i + 1] # BQ /\ close # {}
             THEN SubSeq(p, i + 1, MinOf(close) - 1) \o StripInlineCode(p, MinOf(close) + 1)
             ELSE <<p[i]>> \o StripInlineCode(p, i + 1)

RECURSIVE StripBullets(_, _)
\* .replace(/^\s*[-*+]\s*/gm, '')
StripBullets(p, i) ==
    IF i > Len(p) THEN << >>
    ELSE LET k == SkipWs(p, i)
         IN  IF LineStart(p, i) /\ k <= Len(p) /\ p[k] \in {"-", "*", "+"}
             THEN StripBullets(p, SkipWs(p, k + 1))
             ELSE <<p[i]>> \o StripBullets(p, i + 1)

RECURSIVE StripNumbers(_, _)
\* .replace(/^\s*\d+\.\s*/gm, '')
StripNumbers(p, i) ==
    IF i > Len(p) THEN << >>
    ELSE LET k == SkipWs(p, i)
             d == SkipDigits(p, k)
         IN  IF LineStart(p, i) /\ d > k /\ d <= Len(p) /\ p[d] = "."
             THEN StripNumbers(p, SkipWs(p, d + 1))
             ELSE <<p[i]>> \o StripNumbers(p, i + 1)

RECURSIVE StripHeaders(_, _)
\* .replace(/^\s*#+\s*/gm, '')
StripHeaders(p, i) ==
    IF i > Len(p) THEN << >>
    ELSE LET k == SkipWs(p, i)
             h == SkipHashes(p, k)
         IN  IF LineStart(p, i) /\ h > k
             THEN StripHeaders(p, SkipWs(p, h))
             ELSE <<p[i]>> \o StripHeaders(p, i + 1)

RECURSIVE StripEmphasis(_, _, _)
\* .replace(/\*\*(.*?)\*\*/g, '$1') for w = 2, .replace(/\*(.*?)\*/g, '$1')
\* for w = 1: the nearest closing mark on the same line.
StripEmphasis(p, i, w) ==
    IF i > Len(p) THEN << >>
    ELSE LET close == { j \in (i + w)..Len(p) :
                          /\ IsAt(p, j, "*", w)
                          /\ \A k \in (i + w)..(j - 1) : ~IsLineTerm(p[k]) }
         IN  IF IsAt(p, i, "*", w) /\ close # {}
             THEN SubSeq(p, i + w, MinOf(close) - 1) \o StripEmphasis(p, MinOf(close) + w, w)
             ELSE <<p[i]>> \o StripEmphasis(p, i + 1, w)

\* .replace(/[\u{1F300}-\u{1FAFF}]/gu, '')
StripEmoji(p) == SelectSeq(p, LAMBDA c : ~IsEmoji(c))

RECURSIVE CollapseTabs(_, _)
\* .replace(/[\t\r]+/g, ' ')
CollapseTabs(p, i) ==
    IF i > Len(p) THEN << >>
    ELSE IF p[i] \in {"\t", "\r"}
         THEN <<" ">> \o CollapseTabs(p, MinOf({ k \in (i + 1)..(Len(p) + 1) :
                                           k = Len(p) + 1 \/ p[k] \notin {"\t", "\r"} }))
         ELSE <<p[i]>> \o CollapseTabs(p, i + 1)

\* String.prototype.trim()
Trim(p) ==
    LET keep == { k \in 1..Len(p) : ~IsWs(p[k]) }
    IN  IF keep = {} THEN << >>
        ELSE SubSeq(p, MinOf(keep), CHOOSE x \in keep : \A y \in keep : y <= x)

RECURSIVE SplitPlain(_, _)
\* String.prototype.split('\n'), from index i on
SplitPlain(p, i) ==
    LET nls == { k \in i..Len(p) : p[k] = "\n" }
    IN  IF nls = {} THEN <<SubSeq(p, i, Len(p))>>
        ELSE <<SubSeq(p, i, MinOf(nls) - 1)>> \o SplitPlain(p, MinOf(nls) + 1)

RECURSIVE JoinPlain(_)
\* Array.prototype.join('\n')
JoinPlain(ls) ==
    IF ls = << >> THEN << >>
    ELSE IF Len(ls) = 1 THEN ls[1]
    ELSE ls[1] \o <<"\n">> \o JoinPlain(Tail(ls))

RECURSIVE CollapseSpaces(_, _)
\* .replace(/\s{2,}/g, ' ')
CollapseSpaces(p, i) ==
    IF i > Len(p) THEN << >>
    ELSE LET k == SkipWs(p, i)
         IN  IF k >= i + 2
             THEN <<" ">> \o CollapseSpaces(p, k)
             ELSE <<p[i]>> \o CollapseSpaces(p, i + 1)

\* .replace(/[\s:,.!;]+$/g, '')
StripTrailingPunct(p) ==
    LET keep == { k \in 1..Len(p) : ~(IsWs(p[k]) \/ p[k] \in {":", ",", ".", "!", ";"}) }
    IN  IF keep = {} THEN << >>
        ELSE SubSeq(p, 1, CHOOSE x \in keep : \A y \in keep : y <= x)

DefaultCode == <<"U","p","d","a","t","e"," ","p","r","o","j","e","c","t"," ","c","o","d","e">>

\* cleanCommitMessage on the plain characters of message; body is options.body
CleanPlain(message, body) ==
    IF message = << >> THEN DefaultCode
    ELSE
    LET s1 == StripFences(message, 1)
        s2 == StripInlineCode(s1, 1)
        s3 == StripBullets(s2, 1)
        s4 == StripNumbers(s3, 1)
        s5 == StripHeaders(s4, 1)
        s6 == StripEmphasis(s5, 1, 2)
        s7 == StripEmphasis(s6, 1, 1)
        s8 == StripEmoji(s7)
        s9 == CollapseTabs(s8, 1)
        cleaned == Trim(s9)
        split == SplitPlain(cleaned, 1)
        lines == SelectSeq([i \in 1..Len(split) |-> Trim(split[i])], LAMBDA l : l # << >>)
        first == IF lines = << >> THEN << >> ELSE lines[1]
        subj0 == Trim(StripTrailingPunct(CollapseSpaces(first, 1)))
        subject == IF subj0 = << >> THEN DefaultCode ELSE subj0
        bodyText == Trim(JoinPlain(IF lines = << >> THEN << >> ELSE Tail(lines)))
    IN  IF ~body THEN subject
        ELSE IF bodyText # << >> THEN subject \o <<"\n", "\n">> \o bodyText
        ELSE subject

\* cleanCommitMessage without its defaults: an empty text stays empty
cleanCommitMessageNoDefault(message, body) == Lit(Trim(Expand(message)))

\* AIProviderManager.cleanCommitMessage(message, { body })
cleanCommitMessage(message, body) == Lit(CleanPlain(Expand(message), body))

(***************************************************************************)
(* String literals of bin/lib/ai/providers.js                              *)
(***************************************************************************)
\* 'Write a concise git commit message for these changes:' and the line break
PromptLead ==
    Lit(<<"W","r","i","t","e"," ","a"," ","c","o","n","c","i","s","e"," ",
          "g","i","t"," ","c","o","m","m","i","t"," ","m","e","s","s","a",
          "g","e"," ","f","o","r"," ","t","h","e","s","e"," ","c","h","a",
          "n","g","e","s",":",NL>>)

StyleConventional ==
    Lit(<<"U","s","e"," ","C","o","n","v","e","n","t","i","o","n","a","l",
          " ","C","o","m","m","i","t","s"," ","f","o","r","m","a","t"," ",
          "(","e",".","g",".",","," ","f","e","a","t",":",","," ","f","i",
          "x",":",","," ","c","h","o","r","e",":",")"," ","f","o","r"," ",
          "t","h","e"," ","s","u","b","j","e","c","t",".">>)

StylePlain ==
    Lit(<<"S","u","b","j","e","c","t"," ","m","u","s","t"," ","b","e"," ",
          "a"," ","s","i","n","g","l","e"," ","s","h","o","r","t"," ","l",
          "i","n","e",".">>)

BodyInstrBody ==
    Lit(<<"P","r","o","v","i","d","e"," ","a"," ","s","h","o","r","t"," ",
          "s","u","b","j","e","c","t"," ","l","i","n","e"," ","f","o","l",
          "l","o","w","e","d"," ","b","y"," ","a","n"," ","o","p","t","i",
          "o","n","a","l"," ","b","o","d","y"," ","s","e","p","a","r","a",
          "t","e","d"," ","b","y"," ","a"," ","b","l","a","n","k"," ","l",
          "i","n","e",".">>)

BodyInstrSubject ==
    Lit(<<"R","e","t","u","r","n"," ","o","n","l","y"," ","a"," ","s","h",
          "o","r","t"," ","s","u","b","j","e","c","t"," ","l","i","n","e",
          " ","w","i","t","h","o","u","t"," ","e","x","t","r","a"," ","q",
          "u","o","t","e","s",".">>)

\* the final fallback, 'Update project files'
UpdateProjectFiles ==
    Lit(<<"U","p","d","a","t","e"," ","p","r","o","j","e","c","t"," ","f",
          "i","l","e","s">>)

DiffGit ==
    Lit(<<"d","i","f","f"," ","-","-","g","i","t">>)

WordTest ==
    Lit(<<"t","e","s","t">>)

WordSpec ==
    Lit(<<"s","p","e","c">>)

WordReadme ==
    Lit(<<"R","E","A","D","M","E">>)

WordDoc ==
    Lit(<<"d","o","c">>)

TypeChore ==
    Lit(<<"c","h","o","r","e">>)

TypeFeat ==
    Lit(<<"f","e","a","t">>)

TypeTest ==
    Lit(<<"t","e","s","t">>)

TypeDocs ==
    Lit(<<"d","o","c","s">>)

SubjUpdateFiles ==
    Lit(<<"u","p","d","a","t","e"," ","f","i","l","e","s">>)

SubjAddNew ==
    Lit(<<"a","d","d"," ","n","e","w"," ","f","u","n","c","t","i","o","n",
          "a","l","i","t","y">>)

SubjAddFeaturesTo ==
    Lit(<<"a","d","d"," ","f","e","a","t","u","r","e","s"," ","t","o"," ">>)

SubjFiles ==
    Lit(<<" ","f","i","l","e","s">>)

SubjRemoveUnused ==
    Lit(<<"r","e","m","o","v","e"," ","u","n","u","s","e","d"," ","c","o",
          "d","e">>)

SubjCleanUp ==
    Lit(<<"c","l","e","a","n"," ","u","p"," ">>)

SubjUpdateTests ==
    Lit(<<"u","p","d","a","t","e"," ","t","e","s","t","s">>)

SubjUpdateDocs ==
    Lit(<<"u","p","d","a","t","e"," ","d","o","c","u","m","e","n","t","a",
          "t","i","o","n">>)


(***************************************************************************)
(* AIProviderManager: the pure parts                                       *)
(***************************************************************************)
\* this.maxCacheSize
maxCacheSize == 100

\* the freshness window of generateCommitMessage, in milliseconds
CacheFreshMs == 3600000

\* the length of the change-content prefix that getCacheKey hashes
KeyPrefixLen == 1000

\* null and undefined
Null == [null |-> TRUE]

Remotes == {"gemini", "openai", "groq"}

\* resolveProvider that goes on to the auto-detection when the credential
\* of the named provider is not set
resolveProviderFallsThrough(env, preference) ==
    IF preference = "none" THEN "none"
    ELSE IF preference \in Remotes /\ preference \in env THEN preference
    ELSE IF "gemini" \in env THEN "gemini"
    ELSE IF "openai" \in env THEN "openai"
    ELSE IF "groq" \in env THEN "groq"
    ELSE "none"

\* resolveProvider(preference), env the set of backends whose credential is
\* set in process.env
resolveProvider(env, preference) ==
    IF preference = "none" THEN "none"
    ELSE IF preference = "openai" THEN (IF "openai" \in env THEN "openai" ELSE "none")
    ELSE IF preference = "gemini" THEN (IF "gemini" \in env THEN "gemini" ELSE "none")
    ELSE IF preference = "groq" THEN (IF "groq" \in env THEN "groq" ELSE "none")
    ELSE IF "gemini" \in env THEN "gemini"
    ELSE IF "openai" \in env THEN "openai"
    ELSE IF "groq" \in env THEN "groq"
    ELSE "none"

RECURSIVE Dedup(_)
\* [...new Set(list)]: the first occurrence of each member, in order
Dedup(list) ==
    IF list = << >> THEN << >>
    ELSE LET init == Dedup(SubSeq(list, 1, Len(list) - 1))
             last == list[Len(list)]
         IN  IF \E i \in 1..Len(init) : init[i] = last THEN init ELSE Append(init, last)

\* buildProviderChain that, under "auto", does not look at the credentials
buildProviderChainAnyEnv(env, preferred) ==
    IF preferred = "auto" THEN <<"gemini", "openai", "groq", "local">>
    ELSE IF preferred # "none" /\ resolveProvider(env, preferred) # "none"
    THEN <<resolveProvider(env, preferred), "local">>
    ELSE <<"local">>

\* buildProviderChain that, under "auto", asks OpenAI before Gemini
buildProviderChainOpenAIFirst(env, preferred) ==
    LET available ==
          IF preferred # "auto" /\ preferred # "none"
          THEN (IF resolveProvider(env, preferred) # "none"
                THEN <<resolveProvider(env, preferred)>> ELSE << >>)
          ELSE IF preferred = "auto"
          THEN (IF "openai" \in env THEN <<"openai">> ELSE << >>)
               \o (IF "gemini" \in env THEN <<"gemini">> ELSE << >>)
               \o (IF "groq" \in env THEN <<"groq">> ELSE << >>)
          ELSE << >>
    IN  Dedup(Append(available, "local"))

\* buildProviderChain that takes the preferred name as it is given
buildProviderChainUnresolved(env, preferred) ==
    LET available ==
          IF preferred # "auto" /\ preferred # "none"
          THEN <<preferred>>
          ELSE IF preferred = "auto"
          THEN (IF "gemini" \in env THEN <<"gemini">> ELSE << >>)
               \o (IF "openai" \in env THEN <<"openai">> ELSE << >>)
               \o (IF "groq" \in env THEN <<"groq">> ELSE << >>)
          ELSE << >>
    IN  Dedup(Append(available, "local"))

\* buildProviderChain(preferred)
buildProviderChain(env, preferred) ==
    LET available ==
          IF preferred # "auto" /\ preferred # "none"
          THEN (IF resolveProvider(env, preferred) # "none"
                THEN <<resolveProvider(env, preferred)>> ELSE << >>)
          ELSE IF preferred = "auto"
          THEN (IF "gemini" \in env THEN <<"gemini">> ELSE << >>)
               \o (IF "openai" \in env THEN <<"openai">> ELSE << >>)
               \o (IF "groq" \in env THEN <<"groq">> ELSE << >>)
          ELSE << >>
    IN  Dedup(Append(available, "local"))

\* getCacheKey over the whole change content
getCacheKeyWholeDiff(prompt, conventional, body) ==
    [prompt |-> prompt, conventional |-> conventional, body |-> body]

\* getCacheKey(prompt, options) with options = { conventional, body }.  The
\* MD5 digest of the JSON text is modelled by the hashed data itself: two
\* keys are equal exactly when prefix and options are (digest collisions
\* are left out).
getCacheKey(prompt, conventional, body) ==
    [prompt |-> Prefix(prompt, KeyPrefixLen), conventional |-> conventional, body |-> body]

\* The cache is the Map in its iteration order: the sequence of its entries,
\* each with its key.  ins is bookkeeping of the model, not a field of the
\* code: the number of the insertion that put the key into the Map.
CacheKeys(c) == { c[i].key : i \in 1..Len(c) }

CacheSlot(c, cacheKey) == CHOOSE i \in 1..Len(c) : c[i].key = cacheKey

\* getFromCache(cacheKey)
getFromCache(enabled, c, cacheKey) ==
    IF ~enabled THEN Null
    ELSE IF cacheKey \in CacheKeys(c) THEN c[CacheSlot(c, cacheKey)]
    ELSE Null

\* setCache that does not look at config.cacheEnabled
setCacheAlways(enabled, c, cacheKey, result, usedLocal, t, n) ==
    LET c1 == IF Len(c) >= maxCacheSize THEN Tail(c) ELSE c
    IN  IF cacheKey \in CacheKeys(c1)
        THEN [c1 EXCEPT ![CacheSlot(c1, cacheKey)] =
                 [key |-> cacheKey, result |-> result, usedLocal |-> usedLocal,
                  timestamp |-> t, ins |-> c1[CacheSlot(c1, cacheKey)].ins]]
        ELSE Append(c1, [key |-> cacheKey, result |-> result,
                         usedLocal |-> usedLocal, timestamp |-> t, ins |-> n])

\* setCache that evicts the newest entry instead of the oldest
setCacheEvictNewest(enabled, c, cacheKey, result, usedLocal, t, n) ==
    IF ~enabled THEN c
    ELSE LET c1 == IF Len(c) >= maxCacheSize THEN SubSeq(c, 1, Len(c) - 1) ELSE c
         IN  IF cacheKey \in CacheKeys(c1)
             THEN [c1 EXCEPT ![CacheSlot(c1, cacheKey)] =
                      [key |-> cacheKey, result |-> result, usedLocal |-> usedLocal,
                       timestamp |-> t, ins |-> c1[CacheSlot(c1, cacheKey)].ins]]
             ELSE Append(c1, [key |-> cacheKey, result |-> result,
                              usedLocal |-> usedLocal, timestamp |-> t, ins |-> n])

\* setCache on a list that is appended to without a look at its keys
setCacheAppends(enabled, c, cacheKey, result, usedLocal, t, n) ==
    IF ~enabled THEN c
    ELSE LET c1 == IF Len(c) >= maxCacheSize THEN Tail(c) ELSE c
         IN  Append(c1, [key |-> cacheKey, result |-> result,
                         usedLocal |-> usedLocal, timestamp |-> t, ins |-> n])

\* setCache that evicts the entry written longest ago
setCacheEvictStalest(enabled, c, cacheKey, result, usedLocal, t, n) ==
    IF ~enabled THEN c
    ELSE LET j  == CHOOSE i \in 1..Len(c) :
                       /\ \A k \in 1..Len(c) : c[i].timestamp <= c[k].timestamp
                       /\ \A k \in 1..(i - 1) : c[k].timestamp > c[i].timestamp
             c1 == IF Len(c) >= maxCacheSize
                   THEN SubSeq(c, 1, j - 1) \o SubSeq(c, j + 1, Len(c))
                   ELSE c
         IN  IF cacheKey \in CacheKeys(c1)
             THEN [c1 EXCEPT ![CacheSlot(c1, cacheKey)] =
                      [key |-> cacheKey, result |-> result, usedLocal |-> usedLocal,
                       timestamp |-> t, ins |-> c1[CacheSlot(c1, cacheKey)].ins]]
             ELSE Append(c1, [key |-> cacheKey, result |-> result,
                              usedLocal |-> usedLocal, timestamp |-> t, ins |-> n])

\* setCache(cacheKey, result, usedLocal) at time t; n numbers the insertion
setCache(enabled, c, cacheKey, result, usedLocal, t, n) ==
    IF ~enabled THEN c
    ELSE LET c1 == IF Len(c) >= maxCacheSize THEN Tail(c) ELSE c
         IN  IF cacheKey \in CacheKeys(c1)
             THEN [c1 EXCEPT ![CacheSlot(c1, cacheKey)] =
                      [key |-> cacheKey, result |-> result, usedLocal |-> usedLocal,
                       timestamp |-> t, ins |-> c1[CacheSlot(c1, cacheKey)].ins]]
             ELSE Append(c1, [key |-> cacheKey, result |-> result,
                              usedLocal |-> usedLocal, timestamp |-> t, ins |-> n])

\* the freshness test with <= for <
CacheHitInclusive(cached, t) == cached # Null /\ t - cached.timestamp <= CacheFreshMs

\* cached && Date.now() - cached.timestamp < 3600000
CacheHit(cached, t) == cached # Null /\ t - cached.timestamp < CacheFreshMs

\* buildPrompt(diff, { conventional, body })
buildPrompt(diff, conventional, body) ==
    ConcatAll(<<PromptLead, diff, Lit(<<NL, NL>>),
                IF conventional THEN StyleConventional ELSE StylePlain,
                Lit(<<" ">>),
                IF body THEN BodyInstrBody ELSE BodyInstrSubject>>)

\* generateLocalHeuristic with additions and deletions taken for each other
generateLocalHeuristicSwapped(diff, conventional) ==
    LET lines == SplitLines(diff)
        additions == CountStartingWith(lines, "-")
        deletions == CountStartingWith(lines, "+")
        files == CountMatches(diff, DiffGit)
        kind == IF additions > deletions * 2 THEN "add"
                ELSE IF deletions > additions * 2 THEN "remove"
                ELSE IF Includes(diff, WordTest) \/ Includes(diff, WordSpec) THEN "test"
                ELSE IF Includes(diff, WordReadme) \/ Includes(diff, WordDoc) THEN "docs"
                ELSE "none"
        type == CASE kind = "add" -> TypeFeat
                  [] kind = "remove" -> TypeChore
                  [] kind = "test" -> TypeTest
                  [] kind = "docs" -> TypeDocs
                  [] OTHER -> TypeChore
        subject == CASE kind = "add" ->
                          (IF files = 1 THEN SubjAddNew
                           ELSE ConcatAll(<<SubjAddFeaturesTo, NumToStr(files), SubjFiles>>))
                     [] kind = "remove" ->
                          (IF files = 1 THEN SubjRemoveUnused
                           ELSE ConcatAll(<<SubjCleanUp, NumToStr(files), SubjFiles>>))
                     [] kind = "test" -> SubjUpdateTests
                     [] kind = "docs" -> SubjUpdateDocs
                     [] OTHER -> SubjUpdateFiles
    IN  IF conventional THEN ConcatAll(<<type, Lit(<<":", " ">>), subject>>)
        ELSE Capitalize(subject)

\* generateLocalHeuristic(diff, options)
generateLocalHeuristic(diff, conventional) ==
    LET lines == SplitLines(diff)
        additions == CountStartingWith(lines, "+")
        deletions == CountStartingWith(lines, "-")
        files == CountMatches(diff, DiffGit)
        kind == IF additions > deletions * 2 THEN "add"
                ELSE IF deletions > additions * 2 THEN "remove"
                ELSE IF Includes(diff, WordTest) \/ Includes(diff, WordSpec) THEN "test"
                ELSE IF Includes(diff, WordReadme) \/ Includes(diff, WordDoc) THEN "docs"
                ELSE "none"
        type == CASE kind = "add" -> TypeFeat
                  [] kind = "remove" -> TypeChore
                  [] kind = "test" -> TypeTest
                  [] kind = "docs" -> TypeDocs
                  [] OTHER -> TypeChore
        subject == CASE kind = "add" ->
                          (IF files = 1 THEN SubjAddNew
                           ELSE ConcatAll(<<SubjAddFeaturesTo, NumToStr(files), SubjFiles>>))
                     [] kind = "remove" ->
                          (IF files = 1 THEN SubjRemoveUnused
                           ELSE ConcatAll(<<SubjCleanUp, NumToStr(files), SubjFiles>>))
                     [] kind = "test" -> SubjUpdateTests
                     [] kind = "docs" -> SubjUpdateDocs
                     [] OTHER -> SubjUpdateFiles
    IN  IF conventional THEN ConcatAll(<<type, Lit(<<":", " ">>), subject>>)
        ELSE Capitalize(subject)

\* estimateTokens(text) of bin/gims.js: Math.ceil(text.length / 4)
estimateTokens(text) == (StrLen(text) + 3) \div 4

\* what generateWithGemini, generateWithOpenAI and generateWithGroq return
\* for the text raw of the backend's response: raw.trim()
BackendResult(raw) == Lit(Trim(Expand(raw)))

(***************************************************************************)
(* gims 0.4.3, bin/gims.js lines 1-389: generateCommitMessage(rawDiff)     *)
(* with the content reducer and the final check on the prompt.             *)
(***************************************************************************)
MAX_TOKENS == 100000

MAX_CHARS == MAX_TOKENS * 4

\* the test estimateTokens(...) > MAX_TOKENS with >= for >
OverBudgetInclusive(text) == estimateTokens(text) >= MAX_TOKENS

\* estimateTokens(...) > MAX_TOKENS
OverBudget(text) == estimateTokens(text) > MAX_TOKENS

PromptFull ==
    Lit(<<"W","r","i","t","e"," ","a"," ","c","o","n","c","i","s","e"," ",
      "g","i","t"," ","c","o","m","m","i","t"," ","m","e","s","s","a","g",
      "e"," ","f","o","r"," ","t","h","e","s","e"," ","c","h","a","n","g",
      "e","s",":">>)

PromptSummary ==
    Lit(<<"C","h","a","n","g","e","s"," ","a","r","e"," ","l","a","r","g",
      "e",";"," ","u","s","i","n","g"," ","s","u","m","m","a","r","y",".",
      " ","W","r","i","t","e"," ","a"," ","c","o","n","c","i","s","e"," ",
      "g","i","t"," ","c","o","m","m","i","t"," ","m","e","s","s","a","g",
      "e"," ","f","o","r"," ","t","h","e","s","e"," ","c","h","a","n","g",
      "e","s",":">>)

PromptStatus ==
    Lit(<<"M","a","n","y"," ","f","i","l","e","s"," ","c","h","a","n","g",
      "e","d","."," ","W","r","i","t","e"," ","a"," ","c","o","n","c","i",
      "s","e"," ","g","i","t"," ","c","o","m","m","i","t"," ","m","e","s",
      "s","a","g","e"," ","b","a","s","e","d"," ","o","n"," ","t","h","e",
      "s","e"," ","f","i","l","e"," ","c","h","a","n","g","e","s",":">>)

PromptTruncated ==
    Lit(<<"L","a","r","g","e"," ","d","i","f","f"," ","t","r","u","n","c",
      "a","t","e","d","."," ","W","r","i","t","e"," ","a"," ","c","o","n",
      "c","i","s","e"," ","g","i","t"," ","c","o","m","m","i","t"," ","m",
      "e","s","s","a","g","e"," ","f","o","r"," ","t","h","e","s","e"," ",
      "c","h","a","n","g","e","s",":">>)

PromptFallback ==
    Lit(<<"W","r","i","t","e"," ","a"," ","c","o","n","c","i","s","e"," ",
      "g","i","t"," ","c","o","m","m","i","t"," ","m","e","s","s","a","g",
      "e"," ","f","o","r",":">>)

LargeChanges ==
    Lit(<<"L","a","r","g","e"," ","c","h","a","n","g","e","s"," ","a","c",
      "r","o","s","s"," ","m","u","l","t","i","p","l","e"," ","f","i","l",
      "e","s">>)

UpdateMultipleFiles ==
    Lit(<<"U","p","d","a","t","e"," ","m","u","l","t","i","p","l","e"," ",
      "f","i","l","e","s">>)

TruncatedMark ==
    Lit(<<NL,".",".","."," ","(","t","r","u","n","c","a","t","e","d",")">>)

LabelModified ==
    Lit(<<"M","o","d","i","f","i","e","d",":"," ">>)

LabelAdded ==
    Lit(<<"A","d","d","e","d",":"," ">>)

LabelDeleted ==
    Lit(<<"D","e","l","e","t","e","d",":"," ">>)

CommaSpace ==
    Lit(<<","," ">>)

AndMore ==
    Lit(<<NL,".",".","."," ","a","n","d"," ">>)

MoreFiles ==
    Lit(<<" ","m","o","r","e"," ","f","i","l","e","s">>)

ColonPlus ==
    Lit(<<":"," ","+">>)

SpaceMinus ==
    Lit(<<" ","-">>)

\* the table prompts, lines 102-108
prompts(strategy) ==
    CASE strategy = "full" -> PromptFull
      [] strategy = "summary" -> PromptSummary
      [] strategy = "status" -> PromptStatus
      [] strategy = "truncated" -> PromptTruncated
      [] strategy = "fallback" -> PromptFallback

RECURSIVE JoinWith(_, _)
\* Array.prototype.join(sep)
JoinWith(ss, sep) ==
    IF ss = << >> THEN EmptyStr
    ELSE IF Len(ss) = 1 THEN ss[1]
    ELSE ConcatAll(<<ss[1], sep, JoinWith(Tail(ss), sep)>>)

\* Array.prototype.slice(0, k)
Slice(xs, k) == SubSeq(xs, 1, IF Len(xs) < k THEN Len(xs) ELSE k)

\* lines 62-65: one line "file: +insertions -deletions" for each file of the
\* summary
SummaryContent(files) ==
    JoinWith([i \in 1..Len(files) |->
                 ConcatAll(<<files[i].file, ColonPlus, NumToStr(files[i].insertions),
                             SpaceMinus, NumToStr(files[i].deletions)>>)],
             Lit(<<NL>>))

\* lines 77-91: the first 10 paths of each category of the status, and the
\* count of the files beyond 30
StatusContent(status) ==
    LET modified == Slice(status.modified, 10)
        created == Slice(status.created, 10)
        deleted == Slice(status.deleted, 10)
        parts == <<IF Len(modified) > 0
                   THEN Concat(LabelModified, JoinWith(modified, CommaSpace)) ELSE EmptyStr,
                   IF Len(created) > 0
                   THEN Concat(LabelAdded, JoinWith(created, CommaSpace)) ELSE EmptyStr,
                   IF Len(deleted) > 0
                   THEN Concat(LabelDeleted, JoinWith(deleted, CommaSpace)) ELSE EmptyStr>>
        content == JoinWith(SelectSeq(parts, LAMBDA x : x # EmptyStr), Lit(<<NL>>))
    IN  IF status.files > 30
        THEN ConcatAll(<<content, AndMore, NumToStr(status.files - 30), MoreFiles>>)
        ELSE content

\* cleanCommitMessage(message) of lines 26-43, on the plain characters
LegacyCleanPlain(message) ==
    LET s1 == StripFences(message, 1)
        s2 == StripInlineCode(s1, 1)
        s3 == StripBullets(s2, 1)
        s4 == StripNumbers(s3, 1)
        s5 == StripHeaders(s4, 1)
        s6 == StripEmphasis(s5, 1, 2)
        s7 == StripEmphasis(s6, 1, 1)
        cleaned == Trim(s7)
        firstLine == Trim(SplitPlain(cleaned, 1)[1])
    IN  IF Len(firstLine) > 72 THEN SubSeq(firstLine, 1, 69) \o <<".", ".", ".">>
        ELSE firstLine

LegacyClean(message) == Lit(LegacyCleanPlain(Expand(message)))

\* no call of the 0.4.3 function under way.  queries, summary, status,
\* answer and threw are bookkeeping: the repository queries made, the
\* summary and the status view built from their answers, the answer of
\* git.status() itself, and the queries that threw
LegacyIdle ==
    [pc |-> "idle", rawDiff |-> EmptyStr, strategy |-> "full", content |-> EmptyStr,
     prompt |-> EmptyStr, queries |-> << >>, summary |-> Null, status |-> Null,
     answer |-> Null, threw |-> {}, provider |-> "none", ret |-> Null]

\* LegacyAssemble that truncates whatever is longer than the truncated
\* content would be
LegacyAssembleEarlyCut(e, l, strategy, content) ==
    LET cut == StrLen(content) > MAX_CHARS - 1000
        strategy3 == IF cut THEN "truncated" ELSE strategy
        content3 == IF cut THEN Concat(Prefix(content, MAX_CHARS - 1000), TruncatedMark)
                    ELSE content
        prompt == ConcatAll(<<prompts(strategy3), Lit(<<NL>>), content3>>)
        l3 == [l EXCEPT !.strategy = strategy3, !.content = content3, !.prompt = prompt]
    IN  IF OverBudget(prompt)
        THEN [l3 EXCEPT !.pc = "done", !.ret = UpdateMultipleFiles]
        ELSE IF "gemini" \notin e /\ "openai" \notin e
        THEN [l3 EXCEPT !.pc = "done", !.ret = Null]
        ELSE [l3 EXCEPT !.pc = "backend",
                        !.provider = IF "gemini" \in e THEN "gemini" ELSE "openai"]

\* LegacyAssemble that truncates to MAX_CHARS, not MAX_CHARS - 1000
LegacyAssembleCutAtMax(e, l, strategy, content) ==
    LET cut == OverBudget(content)
        strategy3 == IF cut THEN "truncated" ELSE strategy
        content3 == IF cut THEN Concat(Prefix(content, MAX_CHARS), TruncatedMark)
                    ELSE content
        prompt == ConcatAll(<<prompts(strategy3), Lit(<<NL>>), content3>>)
        l3 == [l EXCEPT !.strategy = strategy3, !.content = content3, !.prompt = prompt]
    IN  IF OverBudget(prompt)
        THEN [l3 EXCEPT !.pc = "done", !.ret = UpdateMultipleFiles]
        ELSE IF "gemini" \notin e /\ "openai" \notin e
        THEN [l3 EXCEPT !.pc = "done", !.ret = Null]
        ELSE [l3 EXCEPT !.pc = "backend",
                        !.provider = IF "gemini" \in e THEN "gemini" ELSE "openai"]

\* lines 96-121: the truncation, the prompt, the final check on it and the
\* choice of the backend, in the environment e, for the call l whose
\* reduction has come to strategy and content
LegacyAssemble(e, l, strategy, content) ==
    LET cut == OverBudget(content)
        strategy3 == IF cut THEN "truncated" ELSE strategy
        content3 == IF cut THEN Concat(Prefix(content, MAX_CHARS - 1000), TruncatedMark)
                    ELSE content
        prompt == ConcatAll(<<prompts(strategy3), Lit(<<NL>>), content3>>)
        l3 == [l EXCEPT !.strategy = strategy3, !.content = content3, !.prompt = prompt]
    IN  IF OverBudget(prompt)
        THEN [l3 EXCEPT !.pc = "done", !.ret = UpdateMultipleFiles]
        ELSE IF "gemini" \notin e /\ "openai" \notin e
        THEN [l3 EXCEPT !.pc = "done", !.ret = Null]
        ELSE [l3 EXCEPT !.pc = "backend",
                        !.provider = IF "gemini" \in e THEN "gemini" ELSE "openai"]

(***************************************************************************)
(* The state of one process: the environment and configuration it was      *)
(* started with, the manager's cache, the clock, and the requests.         *)
(***************************************************************************)
VARIABLES
    env,          \* the backends whose credential is set in process.env
    cacheEnabled, \* this.config.cacheEnabled
    cache,        \* this.cache
    now,          \* Date.now()
    req,          \* the generateCommitMessage requests, by slot
    prev,         \* bookkeeping: the last request that returned
    insCount,     \* bookkeeping: cache insertions so far
    ncalls,       \* requests made so far
    ticks,        \* clock advances so far
    lg,           \* the generateCommitMessage(rawDiff) call of gims 0.4.3
    sg,           \* the generateMultipleSuggestions call
    repo,         \* the git repository the process runs in
    cm            \* the command of bin/gims.js the process runs

vars == <<env, cacheEnabled, cache, now, req, prev, insCount, ncalls, ticks, lg, sg, repo, cm>>

\* how many requests one behaviour of Spec makes
MaxCalls == 2

\* how many times the clock advances in one behaviour
MaxTicks == 1

Slots == {"s1"}

Preferences == {"auto", "none", "gemini", "openai", "groq", "mistral"}

\* change contents: three long ones, of which the first two share their
\* first KeyPrefixLen characters and the third differs from them in the
\* last of these, a small one, and one beyond the token budget
DiffLongB == Concat(Rep("a", KeyPrefixLen), Lit(<<"b">>))

DiffLongC == Concat(Rep("a", KeyPrefixLen), Lit(<<"c">>))

DiffShortB == Concat(Rep("a", KeyPrefixLen - 1), Lit(<<"b", "b">>))

DiffSmall == Lit(<<"+", "a", NL>>)

DiffHuge == Rep("x", 400000)

\* texts a backend answers with
TextEmpty == Lit(<< >>)

TextMarkdown ==
    Lit(<<" ","*","*","F","i","x","*","*"," ",BQ,"a",".","j","s",BQ,NL>>)

TextFenceOnly == Lit(<<BQ,BQ,BQ,"j","s",NL,"x",BQ,BQ,BQ,NL>>)

TextWithBody == Lit(<<"f","i","x",":"," ","x",".",NL,NL,"-"," ","y",NL>>)

\* no call of generateMultipleSuggestions under way
SuggestIdle ==
    [pc |-> "idle", diff |-> EmptyStr, options |-> Null, count |-> 0, i |-> 0,
     suggestions |-> << >>, ret |-> Null]

\* a repository without commits and without changes.  commits is the
\* history of HEAD, oldest first, each commit with its hash and message;
\* staged and unstaged are the paths changed in the index and in the working
\* tree; remote is the history of the upstream branch; objects counts the
\* commits ever made, which numbers the hashes.
EmptyRepo ==
    [commits |-> << >>, staged |-> {}, unstaged |-> {}, remote |-> << >>,
     stashes |-> 0, objects |-> 0]

\* no command under way.  start and n are bookkeeping: the repository as
\* the command found it, and the commands run so far.
CmdIdle ==
    [pc |-> "idle", name |-> "none", opts |-> Null, rawDiff |-> EmptyStr,
     msg |-> Null, usedLocal |-> FALSE, confirmed |-> "unasked", out |-> << >>,
     input |-> Null, ret |-> Null, start |-> Null, n |-> 0]

IdleReq ==
    [pc |-> "idle", diff |-> EmptyStr, opts |-> Null, key |-> Null, chain |-> << >>,
     idx |-> 0, attempts |-> << >>, hit |-> FALSE, ret |-> Null, t0 |-> 0,
     before |-> Null]

\* what prev keeps of a request that returned; entryTime is the timestamp of
\* the cache entry it read or wrote
Summary(r, ret, entryTime) ==
    [diff |-> r.diff, opts |-> r.opts, ret |-> ret, entryTime |-> entryTime]

Init ==
    /\ env \in SUBSET Remotes
    /\ cacheEnabled \in BOOLEAN
    /\ cache = << >>
    /\ now = 0
    /\ req = [s \in Slots |-> IdleReq]
    /\ prev = Null
    /\ insCount = 0
    /\ ncalls = 0
    /\ ticks = 0
    /\ lg = LegacyIdle
    /\ sg = SuggestIdle
    /\ repo = EmptyRepo
    /\ cm = CmdIdle

\* generateCommitMessage(diff, options), lines 120-136: the cache read, and
\* on a miss the provider chain.
Begin(s, diff, opts) ==
    /\ req[s].pc # "chain"
    /\ ncalls' = ncalls + 1
    /\ LET cacheKey == getCacheKey(diff, opts.conventional, opts.body)
           cached == getFromCache(cacheEnabled, cache, cacheKey)
           r0 == [IdleReq EXCEPT !.diff = diff, !.opts = opts, !.key = cacheKey,
                                 !.t0 = now, !.before = prev]
       IN  IF CacheHit(cached, now)
           THEN LET ret == [message |-> cached.result, usedLocal |-> cached.usedLocal]
                IN  /\ req' = [req EXCEPT ![s] =
                                  [r0 EXCEPT !.pc = "done", !.hit = TRUE, !.ret = ret]]
                    /\ prev' = Summary(r0, ret, cached.timestamp)
           ELSE /\ req' = [req EXCEPT ![s] =
                              [r0 EXCEPT !.pc = "chain",
                                         !.chain = buildProviderChain(env, opts.provider),
                                         !.idx = 1]]
                /\ prev' = prev
    /\ UNCHANGED <<env, cacheEnabled, cache, now, insCount, ticks, lg>>

\* generateCommitMessage called by a caller that awaits each call before it
\* makes the next
Invoke(s, diff, opts) ==
    /\ \A q \in DOMAIN req : req[q].pc # "chain"
    /\ Begin(s, diff, opts)

\* a command calls generateCommitMessage(diff, options)
Call(s, diff, opts) ==
    /\ ncalls < MaxCalls
    /\ sg.pc \in {"idle", "done"}
    /\ Invoke(s, diff, opts)
    /\ UNCHANGED <<sg, repo, cm>>

\* the request returns { message, usedLocal } after setCache
Finish(s, attempt, message, usedLocal) ==
    LET r == req[s]
        ret == [message |-> message, usedLocal |-> usedLocal]
    IN  /\ cache' = setCache(cacheEnabled, cache, r.key, message, usedLocal, now, insCount + 1)
        /\ insCount' = insCount + 1
        /\ req' = [req EXCEPT ![s] = [r EXCEPT !.pc = "done", !.ret = ret,
                                               !.attempts = Append(r.attempts, attempt)]]
        /\ prev' = Summary(r, ret, now)

\* lines 148-153: the backend at the head of the chain answers with raw
RemoteReturns(s, raw) ==
    LET r == req[s]
        provider == r.chain[r.idx]
        prompt == buildPrompt(r.diff, r.opts.conventional, r.opts.body)
        result == BackendResult(raw)
        cleaned == cleanCommitMessage(result, r.opts.body)
    IN  /\ r.pc = "chain"
        /\ provider # "local"
        /\ Finish(s, [provider |-> provider, ok |-> TRUE, text |-> result,
                      tokens |-> estimateTokens(prompt)],
                  cleaned, FALSE)
        /\ UNCHANGED <<env, cacheEnabled, now, ncalls, ticks, lg, sg, repo, cm>>

\* RemoteThrows that asks the same backend again
RemoteThrowsRetry(s) ==
    LET r == req[s]
        provider == r.chain[r.idx]
        prompt == buildPrompt(r.diff, r.opts.conventional, r.opts.body)
        attempt == [provider |-> provider, ok |-> FALSE, text |-> EmptyStr,
                    tokens |-> estimateTokens(prompt)]
    IN  /\ r.pc = "chain"
        /\ provider # "local"
        /\ req' = [req EXCEPT ![s] = [r EXCEPT !.attempts = Append(r.attempts, attempt)]]
        /\ UNCHANGED <<env, cacheEnabled, cache, now, prev, insCount, ncalls, ticks, lg, sg, repo, cm>>

\* RemoteThrows whose loop, when the last remote backend of the chain has
\* thrown, starts over at the first instead of going on to "local" (the
\* attempts are not recorded)
RemoteThrowsRestart(s) ==
    LET r == req[s]
    IN  /\ r.pc = "chain"
        /\ r.chain[r.idx] # "local"
        /\ req' = [req EXCEPT ![s] =
                      [r EXCEPT !.idx = IF r.chain[r.idx + 1] = "local" THEN 1
                                        ELSE r.idx + 1]]
        /\ UNCHANGED <<env, cacheEnabled, cache, now, prev, insCount, ncalls, ticks, lg, sg, repo, cm>>

\* lines 148-149 and 155-164: the backend at the head of the chain throws;
\* the loop goes on, and behind its end lies the final fallback
RemoteThrows(s) ==
    LET r == req[s]
        provider == r.chain[r.idx]
        prompt == buildPrompt(r.diff, r.opts.conventional, r.opts.body)
        attempt == [provider |-> provider, ok |-> FALSE, text |-> EmptyStr,
                    tokens |-> estimateTokens(prompt)]
    IN  /\ r.pc = "chain"
        /\ provider # "local"
        /\ IF r.idx < Len(r.chain)
           THEN /\ req' = [req EXCEPT ![s] = [r EXCEPT !.idx = r.idx + 1,
                                                        !.attempts = Append(r.attempts, attempt)]]
                /\ UNCHANGED <<cache, insCount, prev>>
           ELSE Finish(s, attempt, UpdateProjectFiles, TRUE)
        /\ UNCHANGED <<env, cacheEnabled, now, ncalls, ticks, lg, sg, repo, cm>>

\* lines 142-146: the chain has come to "local"
LocalStep(s) ==
    LET r == req[s]
        result == generateLocalHeuristic(r.diff, r.opts.conventional)
    IN  /\ r.pc = "chain"
        /\ r.chain[r.idx] = "local"
        /\ Finish(s, [provider |-> "local", ok |-> TRUE, text |-> result, tokens |-> 0],
                  result, TRUE)
        /\ UNCHANGED <<env, cacheEnabled, now, ncalls, ticks, lg, sg, repo, cm>>

\* Date.now() moves on by d milliseconds
Tick(d) ==
    /\ ticks < MaxTicks
    /\ ticks' = ticks + 1
    /\ now' = now + d
    /\ UNCHANGED <<env, cacheEnabled, cache, req, prev, insCount, ncalls, lg, sg, repo, cm>>

\* time passes: a millisecond less than the freshness window, or all of it
ClockSteps == {CacheFreshMs - 1, CacheFreshMs}

Opt(provider, model, conventional, body) ==
    [provider |-> provider, model |-> model, conventional |-> conventional, body |-> body]

(***************************************************************************)
(* Spec: one process that makes up to MaxCalls requests, one after the     *)
(* other (the command layer awaits each), while time passes.               *)
(***************************************************************************)
SpecEnvs == {{}, {"groq"}}

SpecDiffs == {DiffLongB, DiffLongC, DiffShortB}

SpecOptions ==
    {Opt("auto", "", FALSE, FALSE), Opt("auto", "", TRUE, TRUE),
     Opt("groq", "m1", FALSE, FALSE)}

SpecTexts == {TextEmpty, TextWithBody}

SpecInit ==
    /\ Init
    /\ env \in SpecEnvs

Next ==
    \/ \E s \in Slots, diff \in SpecDiffs, opts \in SpecOptions : Call(s, diff, opts)
    \/ \E s \in Slots, raw \in SpecTexts : RemoteReturns(s, raw)
    \/ \E s \in Slots : RemoteThrows(s)
    \/ \E s \in Slots : LocalStep(s)
    \/ \E d \in ClockSteps : Tick(d)

Spec == SpecInit /\ [][Next]_vars

(***************************************************************************)
(* SpecChain: the first request of a process, under every environment and  *)
(* every provider preference.                                              *)
(***************************************************************************)
ChainDiffs == {DiffSmall, DiffHuge}

ChainOptions ==
    { Opt(p, "", c, b) : p \in Preferences, c \in BOOLEAN, b \in BOOLEAN }

ChainTexts == {TextEmpty, TextMarkdown, TextFenceOnly, TextWithBody}

FirstCall(s, diff, opts) ==
    /\ req[s].pc = "idle"
    /\ Call(s, diff, opts)

NextChain ==
    \/ \E s \in Slots, diff \in ChainDiffs, opts \in ChainOptions : FirstCall(s, diff, opts)
    \/ \E s \in Slots, raw \in ChainTexts : RemoteReturns(s, raw)
    \/ \E s \in Slots : RemoteThrows(s)
    \/ \E s \in Slots : LocalStep(s)

SpecChain == Init /\ [][NextChain]_vars

(***************************************************************************)
(* SpecLive: SpecChain where every call of a remote backend comes to an    *)
(* end, by an answer or by an error, and the synchronous steps of the      *)
(* process are taken.                                                      *)
(***************************************************************************)
\* request s awaits the answer of a remote backend: the state in which the
\* steps RemoteReturns(s, raw) and RemoteThrows(s) are enabled
AwaitsRemote(s) == req[s].pc = "chain" /\ req[s].chain[req[s].idx] # "local"

\* request s has come to "local": the state in which LocalStep(s) is enabled
AtLocal(s) == req[s].pc = "chain" /\ req[s].chain[req[s].idx] = "local"

\* Weak fairness of the end of a backend call and of the local step,
\* WF_vars(A) written out as []<>~ENABLED <<A>>_vars \/ []<><<A>>_vars with
\* the two predicates above for ENABLED: a call of a backend that is awaited
\* ends, and the local heuristic, which awaits nothing, runs.
Fairness ==
    \A s \in Slots :
        /\ \/ []<>(~AwaitsRemote(s))
           \/ []<><<(\E raw \in ChainTexts : RemoteReturns(s, raw)) \/ RemoteThrows(s)>>_vars
        /\ \/ []<>(~AtLocal(s))
           \/ []<><<LocalStep(s)>>_vars

SpecLive == Init /\ [][NextChain]_vars /\ Fairness

(***************************************************************************)
(* SpecFull: a process whose cache earlier requests have filled, or filled *)
(* but for one entry: with no credential set, request i for the change     *)
(* content FillerDiff(i) was answered by the local heuristic and stored.   *)
(***************************************************************************)
FillerDiff(i) == Rep("f", i)

\* the entry request i stored: the i-th insertion, at time 0
FillerEntry(i) ==
    [key |-> getCacheKey(FillerDiff(i), FALSE, FALSE),
     result |-> generateLocalHeuristic(FillerDiff(i), FALSE),
     usedLocal |-> TRUE, timestamp |-> 0, ins |-> i]

\* the cache after the requests 1..n, n <= maxCacheSize: their keys differ
\* and nothing was evicted, so the Map holds them in the order of insertion
Filled(n) == [i \in 1..n |-> FillerEntry(i)]

\* the last of the requests 1..n brought the cache from Filled(n - 1) to c
LastFill(c, n) ==
    c = setCache(TRUE, Filled(n - 1), FillerEntry(n).key, FillerEntry(n).result,
                 TRUE, 0, n)

FullEnvs == {{}, {"gemini"}}

FullDiffs == {FillerDiff(1), FillerDiff(2), DiffSmall, DiffLongB}

FullOptions == {Opt("auto", "", FALSE, FALSE)}

FullTexts == {TextWithBody}

InitFull ==
    /\ env \in FullEnvs
    /\ cacheEnabled = TRUE
    /\ cache \in {Filled(maxCacheSize - 1), Filled(maxCacheSize)}
    /\ LastFill(cache, Len(cache))
    /\ now = 0
    /\ req = [s \in Slots |-> IdleReq]
    /\ prev = Null
    /\ insCount = Len(cache)
    /\ ncalls = 0
    /\ ticks = 0
    /\ lg = LegacyIdle
    /\ sg = SuggestIdle
    /\ repo = EmptyRepo
    /\ cm = CmdIdle

NextFull ==
    \/ \E s \in Slots, diff \in FullDiffs, opts \in FullOptions : Call(s, diff, opts)
    \/ \E s \in Slots, raw \in FullTexts : RemoteReturns(s, raw)
    \/ \E s \in Slots : RemoteThrows(s)
    \/ \E s \in Slots : LocalStep(s)
    \/ \E d \in ClockSteps : Tick(d)

SpecFull == InitFull /\ [][NextFull]_vars

(***************************************************************************)
(* The repository as the commands see it through simple-git.               *)
(***************************************************************************)
\* the paths that change
Files == {"a", "b"}

\* git.add('.'): every change of the working tree goes to the index
GitAdd(r) == [r EXCEPT !.staged = r.staged \cup r.unstaged, !.unstaged = {}]

\* git.commit(msg): the index becomes a commit on top of HEAD
GitCommit(r, msg) ==
    [r EXCEPT !.commits = Append(r.commits, [hash |-> r.objects + 1, message |-> msg]),
              !.staged = {}, !.objects = r.objects + 1]

\* git.raw(['commit', '--amend', '-m', msg]) in a repository with a commit:
\* the last commit is replaced by one with the index added and message msg
GitAmend(r, msg) ==
    [r EXCEPT !.commits = Append(SubSeq(r.commits, 1, Len(r.commits) - 1),
                                 [hash |-> r.objects + 1, message |-> msg]),
              !.staged = {}, !.objects = r.objects + 1]

\* git.push(): the upstream branch takes the history of HEAD
GitPush(r) == [r EXCEPT !.remote = r.commits]

\* the queries of simple-git that read the repository and leave it as it is
GitReads == {"status", "diff", "diffSummary", "log"}

(***************************************************************************)
(* SpecLegacy: one call of generateCommitMessage(rawDiff) of gims 0.4.3.   *)
(* The repository answers the queries git.diffSummary() and git.status()   *)
(* or throws, and so does the backend.                                     *)
(***************************************************************************)
\* LegacyStart that stages the working tree before it asks for the summary
LegacyStartStaging(rawDiff) ==
    /\ lg.pc = "idle"
    /\ LET l == [LegacyIdle EXCEPT !.rawDiff = rawDiff, !.content = rawDiff]
       IN  /\ lg' = IF OverBudget(rawDiff)
                    THEN [l EXCEPT !.pc = "summary", !.strategy = "summary",
                                   !.queries = <<"add", "diffSummary">>]
                    ELSE LegacyAssemble(env, l, "full", rawDiff)
           /\ repo' = IF OverBudget(rawDiff) THEN GitAdd(repo) ELSE repo
    /\ UNCHANGED <<env, cacheEnabled, cache, now, req, prev, insCount, ncalls, ticks, sg, cm>>

\* lines 51-70: the call; a raw diff over the budget asks for the summary
LegacyStart(rawDiff) ==
    /\ lg.pc = "idle"
    /\ LET l == [LegacyIdle EXCEPT !.rawDiff = rawDiff, !.content = rawDiff]
       IN  lg' = IF OverBudget(rawDiff)
                 THEN [l EXCEPT !.pc = "summary", !.strategy = "summary",
                                !.queries = <<"diffSummary">>]
                 ELSE LegacyAssemble(env, l, "full", rawDiff)
    /\ UNCHANGED <<env, cacheEnabled, cache, now, req, prev, insCount, ncalls, ticks, sg, repo, cm>>

\* lines 61-65 and 73-75: git.diffSummary() answers with files; a summary
\* over the budget asks for the status
SummaryReturns(files) ==
    /\ lg.pc = "summary"
    /\ LET content == SummaryContent(files)
       IN  lg' = IF OverBudget(content)
                 THEN [lg EXCEPT !.pc = "status", !.strategy = "status",
                                 !.content = content, !.summary = content,
                                 !.queries = Append(lg.queries, "status")]
                 ELSE LegacyAssemble(env, [lg EXCEPT !.summary = content],
                                     "summary", content)
    /\ UNCHANGED <<env, cacheEnabled, cache, now, req, prev, insCount, ncalls, ticks, sg, repo, cm>>

\* lines 66-69: git.diffSummary() throws
SummaryThrows ==
    /\ lg.pc = "summary"
    /\ lg' = LegacyAssemble(env, [lg EXCEPT !.threw = lg.threw \cup {"diffSummary"}],
                            "fallback", LargeChanges)
    /\ UNCHANGED <<env, cacheEnabled, cache, now, req, prev, insCount, ncalls, ticks, sg, repo, cm>>

\* lines 75-89: git.status() answers with status
StatusReturns(status) ==
    /\ lg.pc = "status"
    /\ lg' = LegacyAssemble(env, [lg EXCEPT !.status = StatusContent(status),
                                            !.answer = status],
                            "status", StatusContent(status))
    /\ UNCHANGED <<env, cacheEnabled, cache, now, req, prev, insCount, ncalls, ticks, sg, repo, cm>>

\* StatusThrows whose catch sets the content and leaves the strategy
StatusThrowsKeepsStrategy ==
    /\ lg.pc = "status"
    /\ lg' = LegacyAssemble(env, [lg EXCEPT !.threw = lg.threw \cup {"status"}],
                            "status", LargeChanges)
    /\ UNCHANGED <<env, cacheEnabled, cache, now, req, prev, insCount, ncalls, ticks, sg, repo, cm>>

\* lines 90-93: git.status() throws
StatusThrows ==
    /\ lg.pc = "status"
    /\ lg' = LegacyAssemble(env, [lg EXCEPT !.threw = lg.threw \cup {"status"}],
                            "fallback", LargeChanges)
    /\ UNCHANGED <<env, cacheEnabled, cache, now, req, prev, insCount, ncalls, ticks, sg, repo, cm>>

\* lines 125-141 and 151: the backend answers with raw
LegacyBackendReturns(raw) ==
    /\ lg.pc = "backend"
    /\ lg' = [lg EXCEPT !.pc = "done", !.ret = LegacyClean(BackendResult(raw))]
    /\ UNCHANGED <<env, cacheEnabled, cache, now, req, prev, insCount, ncalls, ticks, sg, repo, cm>>

\* lines 142-151: the backend throws an error with the code code; message
\* is still the default 'Update project code'
LegacyBackendThrows(code) ==
    /\ lg.pc = "backend"
    /\ lg' = [lg EXCEPT !.pc = "done",
                        !.ret = IF code = "context_length_exceeded"
                                THEN UpdateMultipleFiles
                                ELSE LegacyClean(Lit(DefaultCode))]
    /\ UNCHANGED <<env, cacheEnabled, cache, now, req, prev, insCount, ncalls, ticks, sg, repo, cm>>

\* raw diffs: a small one; the longest whose prompt passes the final check
\* and the next longer; the longest within the budget and the next longer
LegacyDiffs ==
    {DiffSmall, Rep("x", MAX_CHARS - 54), Rep("x", MAX_CHARS - 53), DiffHuge,
     Rep("x", MAX_CHARS + 1)}

FileStat(file, insertions, deletions) ==
    [file |-> file, insertions |-> insertions, deletions |-> deletions]

\* answers of git.diffSummary(): no file, two files, one whose line fills
\* the budget exactly, and one whose line is over the budget
LegacySummaries ==
    {<< >>,
     <<FileStat(Lit(<<"a", ".", "j", "s">>), 10, 2), FileStat(Lit(<<"b">>), 0, 120)>>,
     <<FileStat(Rep("p", MAX_CHARS - 7), 1, 2)>>,
     <<FileStat(Rep("p", MAX_CHARS), 1, 2)>>}

\* the paths f1 .. fn
Paths(c, n) == [i \in 1..n |-> Concat(Lit(<<c>>), NumToStr(i))]

GitStatus(modified, created, deleted, files) ==
    [modified |-> modified, created |-> created, deleted |-> deleted, files |-> files]

\* answers of git.status(): one modified file; 11 files of each category;
\* 31 files of which one is modified and the others renamed; and a path over
\* the budget
LegacyStatuses ==
    {GitStatus(<<Lit(<<"a">>)>>, << >>, << >>, 1),
     GitStatus(Paths("m", 11), Paths("c", 11), Paths("d", 11), 33),
     GitStatus(<<Lit(<<"a">>)>>, << >>, << >>, 31),
     GitStatus(<<Rep("q", MAX_CHARS)>>, << >>, << >>, 1)}

LegacyTexts == {TextEmpty, TextMarkdown, TextFenceOnly, TextWithBody}

ErrorCodes == {"context_length_exceeded", "other"}

LegacyEnvs == {{}, {"gemini"}, {"openai"}, {"groq"}, {"gemini", "openai"}}

InitLegacy ==
    /\ Init
    /\ env \in LegacyEnvs
    /\ cacheEnabled = TRUE

NextLegacy ==
    \/ \E rawDiff \in LegacyDiffs : LegacyStart(rawDiff)
    \/ \E files \in LegacySummaries : SummaryReturns(files)
    \/ SummaryThrows
    \/ \E status \in LegacyStatuses : StatusReturns(status)
    \/ StatusThrows
    \/ \E raw \in LegacyTexts : LegacyBackendReturns(raw)
    \/ \E code \in ErrorCodes : LegacyBackendThrows(code)

SpecLegacy == InitLegacy /\ [][NextLegacy]_vars

(***************************************************************************)
(* SpecClean: the first request of a process with GEMINI_API_KEY set, the  *)
(* backend answering with any text of up to MaxTextLen characters of       *)
(* CleanAlphabet, or with the text of the documentation's example.         *)
(***************************************************************************)
\* how long the enumerated backend texts are at most
MaxTextLen == 3

CleanAlphabet == {"-", "*", " ", ":", ".", "x", "1", "#", BQ, NL}

\* "**Fix bug** in BQ auth.js BQ"
TextFixBug ==
    Lit(<<"*","*","F","i","x"," ","b","u","g","*","*"," ","i","n"," ",
          BQ,"a","u","t","h",".","j","s",BQ>>)

CleanTexts ==
    { Lit(t) : t \in UNION { [1..n -> CleanAlphabet] : n \in 0..MaxTextLen } }
        \cup {TextFixBug}

CleanOptions == { Opt("auto", "", FALSE, b) : b \in BOOLEAN }

InitClean ==
    /\ Init
    /\ env = {"gemini"}

NextClean ==
    \/ \E s \in Slots, opts \in CleanOptions : FirstCall(s, DiffSmall, opts)
    \/ \E s \in Slots, raw \in CleanTexts : RemoteReturns(s, raw)
    \/ \E s \in Slots : RemoteThrows(s)
    \/ \E s \in Slots : LocalStep(s)

SpecClean == InitClean /\ [][NextClean]_vars

(***************************************************************************)
(* SpecLocal: the first request of a process without credentials, for the  *)
(* output of git diff --cached for one file: a new file of n lines, or a   *)
(* file of which d lines are removed and a lines added.                    *)
(***************************************************************************)
\* how many lines the new file has at most
MaxNewLines == 3

\* how many lines a change removes or adds at most, the documentation's
\* example of 25 and 2 apart
MaxHunk == 3

\* the hunk header "@@ -from,d +to,a @@"
HunkHeader(from, d, to, a) ==
    ConcatAll(<<Lit(<<"@", "@", " ", "-">>), NumToStr(from), Lit(<<",">>), NumToStr(d),
                Lit(<<" ", "+">>), NumToStr(to), Lit(<<",">>), NumToStr(a),
                Lit(<<" ", "@", "@">>)>>)

\* the lines ls, each ended by a line feed
Unlines(ls) == ConcatAll([i \in 1..Len(ls) |-> Concat(ls[i], Lit(<<NL>>))])

\* git diff --cached for the new file app.js of n >= 1 lines, the first of
\* them "export function foo(){}", the others "let a = 1;"
NewFileDiff(n) ==
    Unlines(
      <<
         Lit(<<"d","i","f","f"," ","-","-","g","i","t"," ","a","/","a","p",
               "p",".","j","s"," ","b","/","a","p","p",".","j","s">>),
         Lit(<<"n","e","w"," ","f","i","l","e"," ","m","o","d","e"," ","1",
               "0","0","6","4","4">>),
         Lit(<<"i","n","d","e","x"," ","0","0","0","0","0","0","0",".",".",
               "3","b","1","8","e","5","1">>),
         Lit(<<"-","-","-"," ","/","d","e","v","/","n","u","l","l">>),
         Lit(<<"+","+","+"," ","b","/","a","p","p",".","j","s">>),
         HunkHeader(0, 0, 1, n),
         Lit(<<"+","e","x","p","o","r","t"," ","f","u","n","c","t","i","o",
               "n"," ","f","o","o","(",")","{","}">>)
      >>
      \o [i \in 1..(n - 1) |->
         Lit(<<"+","l","e","t"," ","a"," ","="," ","1",";">>)])

\* git diff --cached for app.js with d lines "let b = 2;" removed and a
\* lines "let a = 1;" added, not both 0
ModifyDiff(a, d) ==
    Unlines(
      <<
         Lit(<<"d","i","f","f"," ","-","-","g","i","t"," ","a","/","a","p",
               "p",".","j","s"," ","b","/","a","p","p",".","j","s">>),
         Lit(<<"i","n","d","e","x"," ","3","b","1","8","e","5","1",".",".",
               "9","d","a","e","a","f","b"," ","1","0","0","6","4","4">>),
         Lit(<<"-","-","-"," ","a","/","a","p","p",".","j","s">>),
         Lit(<<"+","+","+"," ","b","/","a","p","p",".","j","s">>),
         HunkHeader(1, d, 1, a)
      >>
      \o [i \in 1..d |->
         Lit(<<"-","l","e","t"," ","b"," ","="," ","2",";">>)]
      \o [i \in 1..a |->
         Lit(<<"+","l","e","t"," ","a"," ","="," ","1",";">>)])

NewFileDiffs == { NewFileDiff(n) : n \in 1..MaxNewLines }

LocalDiffs ==
    NewFileDiffs
        \cup ({ ModifyDiff(a, d) : a \in 0..MaxHunk, d \in 0..MaxHunk } \ {ModifyDiff(0, 0)})
        \cup {ModifyDiff(2, 25)}

LocalOptions == { Opt("auto", "", c, FALSE) : c \in BOOLEAN }

InitLocal ==
    /\ Init
    /\ env = {}

NextLocal ==
    \/ \E s \in Slots, diff \in LocalDiffs, opts \in LocalOptions : FirstCall(s, diff, opts)
    \/ \E s \in Slots : LocalStep(s)

SpecLocal == InitLocal /\ [][NextLocal]_vars

(***************************************************************************)
(* SpecSuggest: one call of generateMultipleSuggestions(diff, options,     *)
(* count), lines 256-286, which awaits generateCommitMessage once for each *)
(* variant.                                                                *)
(***************************************************************************)
\* the largest count asked for
MaxCount == 3

\* lines 261-265
Variants(options) ==
    <<[options EXCEPT !.conventional = FALSE],
      [options EXCEPT !.conventional = TRUE],
      [options EXCEPT !.conventional = TRUE, !.body = TRUE]>>

\* Math.min(count, variants.length)
Rounds(options, count) ==
    IF count < Len(Variants(options)) THEN count ELSE Len(Variants(options))

\* lines 256-258: the call
SuggestStart(diff, options, count) ==
    /\ sg.pc = "idle"
    /\ \A q \in DOMAIN req : req[q].pc # "chain"
    /\ sg' = [SuggestIdle EXCEPT !.pc = "loop", !.diff = diff, !.options = options,
                                 !.count = count]
    /\ UNCHANGED <<env, cacheEnabled, cache, now, req, prev, insCount, ncalls, ticks, lg, repo, cm>>

\* lines 267-269: the loop calls generateCommitMessage(diff, variants[i])
SuggestCall(s) ==
    /\ sg.pc = "loop"
    /\ sg.i < Rounds(sg.options, sg.count)
    /\ Invoke(s, sg.diff, Variants(sg.options)[sg.i + 1])
    /\ sg' = [sg EXCEPT !.pc = "await"]
    /\ UNCHANGED <<repo, cm>>

\* SuggestCollect without the test !suggestions.includes(message)
SuggestCollectAll(s) ==
    /\ sg.pc = "await"
    /\ req[s].pc = "done"
    /\ LET result == req[s].ret
           message == IF result.message # EmptyStr THEN result.message ELSE result
       IN  sg' = [sg EXCEPT !.pc = "loop", !.i = sg.i + 1,
                            !.suggestions = Append(sg.suggestions, message)]
    /\ UNCHANGED <<env, cacheEnabled, cache, now, req, prev, insCount, ncalls, ticks, lg, repo, cm>>

\* lines 269-275: generateCommitMessage has returned result; message is
\* result.message || result, pushed unless the list includes it (the object
\* result is a new one that no list includes)
SuggestCollect(s) ==
    /\ sg.pc = "await"
    /\ req[s].pc = "done"
    /\ LET result == req[s].ret
           message == IF result.message # EmptyStr THEN result.message ELSE result
           included == /\ result.message # EmptyStr
                       /\ \E k \in 1..Len(sg.suggestions) : sg.suggestions[k] = message
       IN  sg' = [sg EXCEPT !.pc = "loop", !.i = sg.i + 1,
                            !.suggestions = IF included THEN sg.suggestions
                                            ELSE Append(sg.suggestions, message)]
    /\ UNCHANGED <<env, cacheEnabled, cache, now, req, prev, insCount, ncalls, ticks, lg, repo, cm>>

\* lines 267 and 280-285: the loop is over
SuggestReturn ==
    /\ sg.pc = "loop"
    /\ sg.i >= Rounds(sg.options, sg.count)
    /\ sg' = [sg EXCEPT !.pc = "done",
                        !.ret = IF Len(sg.suggestions) = 0 THEN <<UpdateProjectFiles>>
                                ELSE sg.suggestions]
    /\ UNCHANGED <<env, cacheEnabled, cache, now, req, prev, insCount, ncalls, ticks, lg, repo, cm>>

SuggestEnvs == {{}, {"gemini"}}

SuggestOptions == { Opt("auto", "", c, b) : c \in BOOLEAN, b \in BOOLEAN }

SuggestTexts == {TextEmpty, TextWithBody}

InitSuggest ==
    /\ Init
    /\ env \in SuggestEnvs

NextSuggest ==
    \/ \E diff \in {DiffSmall}, options \in SuggestOptions, count \in 0..MaxCount :
          SuggestStart(diff, options, count)
    \/ \E s \in Slots : SuggestCall(s)
    \/ \E s \in Slots : SuggestCollect(s)
    \/ SuggestReturn
    \/ \E s \in Slots, raw \in SuggestTexts : RemoteReturns(s, raw)
    \/ \E s \in Slots : RemoteThrows(s)
    \/ \E s \in Slots : LocalStep(s)

SpecSuggest == InitSuggest /\ [][NextSuggest]_vars

(***************************************************************************)
(* SpecList: in a repository with a history of up to MaxCommits commits,   *)
(* the list command is run, and then a command that takes a commit by its  *)
(* number or hash (branch, reset, revert call resolveCommit).              *)
(***************************************************************************)
\* how many commits the history has at most
MaxCommits == 4

Reverse(xs) == [i \in 1..Len(xs) |-> xs[Len(xs) + 1 - i]]

\* git.log({ maxCount }).all: the newest maxCount commits, newest first
GitLogMax(r, maxCount) == Slice(Reverse(r.commits), maxCount)

\* git.log().all: every commit, newest first
GitLog(r) == Reverse(r.commits)

\* /^\d+$/.test(input), on the characters of input
AllDigits(p) == p # << >> /\ \A i \in 1..Len(p) : IsDigit(p[i])

DigitValue(c) == CHOOSE d \in 0..9 : Digit(d) = c

RECURSIVE NumberOf(_)
\* Number(input) for a string of digits
NumberOf(p) ==
    IF p = << >> THEN 0
    ELSE 10 * NumberOf(SubSeq(p, 1, Len(p) - 1)) + DigitValue(p[Len(p)])

\* resolveCommit(input): the hash, or the error thrown
resolveCommit(r, input) ==
    IF AllDigits(Expand(input))
    THEN LET ordered == Reverse(GitLog(r))
             idx == NumberOf(Expand(input)) - 1
         IN  IF idx < 0 \/ idx >= Len(ordered)
             THEN [error |-> "Index out of range"]
             ELSE [hash |-> ordered[idx + 1].hash]
    ELSE [hash |-> input]

\* parseInt(cmdOptions.limit) || 20, the option given as the integer it
\* parses to: 0 for a text that is no number
ListLimit(limit) == IF limit = 0 THEN 20 ELSE limit

\* lines 1318-1330 of the list command: the lines printed, each with its
\* number (i + 1).toString() and the commit whose hash and message it shows
ListLines(r, limit) ==
    LET commits == Reverse(GitLogMax(r, ListLimit(limit)))
    IN  [i \in 1..Len(commits) |-> [number |-> NumToStr(i), hash |-> commits[i].hash]]

\* the list command with --limit limit
ListCommand(limit) ==
    /\ cm.pc = "idle"
    /\ cm' = [CmdIdle EXCEPT !.pc = "listed", !.name = "list", !.opts = [limit |-> limit],
                             !.out = ListLines(repo, limit), !.start = repo]
    /\ UNCHANGED <<env, cacheEnabled, cache, now, req, prev, insCount, ncalls, ticks, lg, sg, repo>>

\* a command that takes a commit calls resolveCommit(input)
ResolveCommit(input) ==
    /\ cm.pc = "listed"
    /\ cm' = [cm EXCEPT !.pc = "done", !.name = "branch", !.input = input,
                        !.ret = resolveCommit(repo, input)]
    /\ UNCHANGED <<env, cacheEnabled, cache, now, req, prev, insCount, ncalls, ticks, lg, sg, repo>>

RECURSIVE History(_)
\* the repository after n commits
History(n) ==
    IF n = 0 THEN EmptyRepo ELSE GitCommit(History(n - 1), Concat(Lit(<<"c">>), NumToStr(n)))

InitList ==
    /\ env = {}
    /\ cacheEnabled = TRUE
    /\ cache = << >>
    /\ now = 0
    /\ req = [s \in Slots |-> IdleReq]
    /\ prev = Null
    /\ insCount = 0
    /\ ncalls = 0
    /\ ticks = 0
    /\ lg = LegacyIdle
    /\ sg = SuggestIdle
    /\ repo \in { History(n) : n \in 0..MaxCommits }
    /\ cm = CmdIdle

NextList ==
    \/ \E limit \in 0..MaxCommits : ListCommand(limit)
    \/ \E input \in { NumToStr(n) : n \in 0..(MaxCommits + 1) } \cup {Lit(<<"a", "1">>)} :
          ResolveCommit(input)

SpecList == InitList /\ [][NextList]_vars

(***************************************************************************)
(* SpecPaths: the first request of a process without credentials, for the  *)
(* output of git diff --cached for one file under a test or documentation  *)
(* path, of which d lines are removed and a lines added.                   *)
(***************************************************************************)
TestPath == Lit(<<"t","e","s","t","/","a","p","p",".","t","e","s","t",".","j","s">>)

DocsPath == Lit(<<"d","o","c","s","/","g","u","i","d","e",".","m","d">>)

\* git diff --cached for the file path with d lines "let b = 2;" removed
\* and a lines "let a = 1;" added, not both 0
PathDiff(path, a, d) ==
    Unlines(
      <<
         ConcatAll(<<DiffGit, Lit(<<" ","a","/">>), path, Lit(<<" ","b","/">>), path>>),
         Lit(<<"i","n","d","e","x"," ","3","b","1","8","e","5","1",".",".",
               "9","d","a","e","a","f","b"," ","1","0","0","6","4","4">>),
         Concat(Lit(<<"-","-","-"," ","a","/">>), path),
         Concat(Lit(<<"+","+","+"," ","b","/">>), path),
         HunkHeader(1, d, 1, a)
      >>
      \o [i \in 1..d |->
         Lit(<<"-","l","e","t"," ","b"," ","="," ","2",";">>)]
      \o [i \in 1..a |->
         Lit(<<"+","l","e","t"," ","a"," ","="," ","1",";">>)])

PathDiffs(path) ==
    { PathDiff(path, a, d) : a \in 0..MaxHunk, d \in 0..MaxHunk } \ {PathDiff(path, 0, 0)}

NextPaths ==
    \/ \E s \in Slots, diff \in PathDiffs(TestPath) \cup PathDiffs(DocsPath),
          opts \in LocalOptions : FirstCall(s, diff, opts)
    \/ \E s \in Slots : LocalStep(s)

SpecPaths == InitLocal /\ [][NextPaths]_vars

(***************************************************************************)
(* SpecCommit: the commands local, online and amend of bin/gims.js, run    *)
(* one after the other in one process (as the interactive shell does) on a *)
(* repository with one commit.  Each stages, asks the provider manager     *)
(* for a message, asks the user if the message is the local heuristic's,   *)
(* and commits.                                                            *)
(***************************************************************************)
\* String.prototype.toLowerCase() of one character (ASCII)
ToLowerChar(c) ==
    IF \E i \in 1..26 : UpperCase[i] = c
    THEN LowerCase[CHOOSE i \in 1..26 : UpperCase[i] = c]
    ELSE c

\* git.diff(['--cached', '--no-ext-diff']), of each staged path the changed
\* line alone: a line added to a, a line removed from b
GitDiffCached(r) ==
    Concat(IF "a" \in r.staged THEN Lit(<<"+", "a", NL>>) ELSE EmptyStr,
           IF "b" \in r.staged THEN Lit(<<"-", "b", NL>>) ELSE EmptyStr)

\* !rawDiff.trim()
Blank(rawDiff) == Trim(Expand(rawDiff)) = << >>

\* hasChanges(): status.files.length > 0
hasChanges(r) == r.staged \cup r.unstaged # {}

\* The command name with options o on repository r, up to the point where
\* it has its raw diff: the repository as the staging leaves it, and
\* whether the command goes on (it returns early without changes, without
\* commits to amend, or without a staged diff).
Staging(name, o, r) ==
    IF name = "amend"
    THEN IF GitLog(r) = << >> THEN [repo |-> r, go |-> FALSE]
         ELSE [repo |-> GitAdd(r), go |-> ~Blank(GitDiffCached(GitAdd(r)))]
    ELSE IF ~hasChanges(r) /\ ~o.all THEN [repo |-> r, go |-> FALSE]
         ELSE LET r1 == IF o.all THEN GitAdd(r) ELSE r
                  r2 == IF Blank(GitDiffCached(r1)) THEN GitAdd(r1) ELSE r1
              IN  [repo |-> r2, go |-> ~Blank(GitDiffCached(r2))]

\* a command that does not come to generate a message: it returns early,
\* or it is amend without --edit, which amends with the message kept
CommandStops(name, o) ==
    LET st == Staging(name, o, repo)
    IN  /\ cm.pc \in {"idle", "done"}
        /\ cm.n < MaxCalls
        /\ ~st.go \/ (name = "amend" /\ ~o.edit)
        /\ repo' = IF st.go
                   THEN GitAmend(st.repo, st.repo.commits[Len(st.repo.commits)].message)
                   ELSE st.repo
        /\ cm' = [CmdIdle EXCEPT !.pc = "done", !.name = name, !.opts = o,
                                 !.rawDiff = GitDiffCached(st.repo), !.start = repo,
                                 !.n = cm.n + 1]
        /\ UNCHANGED <<env, cacheEnabled, cache, now, req, prev, insCount, ncalls, ticks, lg, sg>>

\* a command that comes to await generateCommitMessage(rawDiff, opts)
CommandGenerates(s, name, o) ==
    LET st == Staging(name, o, repo)
    IN  /\ cm.pc \in {"idle", "done"}
        /\ cm.n < MaxCalls
        /\ st.go /\ (name = "amend" => o.edit)
        /\ Invoke(s, GitDiffCached(st.repo), o)
        /\ repo' = st.repo
        /\ cm' = [CmdIdle EXCEPT !.pc = "generating", !.name = name, !.opts = o,
                                 !.rawDiff = GitDiffCached(st.repo), !.start = repo,
                                 !.n = cm.n + 1]
        /\ UNCHANGED sg

\* the commit of command c: git.commit(msg), or the amending commit for
\* the amend command and for --amend, which without a commit to amend
\* throws and ends the process; the online command goes on to push
Commit(c) ==
    LET amending == c.name = "amend" \/ c.opts.amend
    IN  IF amending /\ repo.commits = << >>
        THEN /\ repo' = repo
             /\ cm' = [c EXCEPT !.pc = "done", !.ret = [error |-> "commit"]]
        ELSE /\ repo' = IF amending THEN GitAmend(repo, c.msg) ELSE GitCommit(repo, c.msg)
             /\ cm' = [c EXCEPT !.pc = IF c.name = "online" THEN "push" ELSE "done"]

\* CommandResult that commits without asking
CommandResultUnasked(s) ==
    LET result == req[s].ret
        msg == IF result.message # EmptyStr THEN result.message ELSE result
        c == [cm EXCEPT !.msg = msg, !.usedLocal = result.usedLocal]
    IN  /\ cm.pc = "generating"
        /\ req[s].pc = "done"
        /\ IF cm.name # "amend" /\ cm.opts.dryRun
           THEN cm' = [c EXCEPT !.pc = "done"] /\ repo' = repo
           ELSE Commit(c)
        /\ UNCHANGED <<env, cacheEnabled, cache, now, req, prev, insCount, ncalls, ticks, lg, sg>>

\* generateCommitMessage has returned result: msg = result.message ||
\* result, usedLocal = result.usedLocal || false; --dry-run prints and
\* returns; a message of the local heuristic without --yes goes to
\* confirmCommit; any other is committed
CommandResult(s) ==
    LET result == req[s].ret
        msg == IF result.message # EmptyStr THEN result.message ELSE result
        c == [cm EXCEPT !.msg = msg, !.usedLocal = result.usedLocal]
    IN  /\ cm.pc = "generating"
        /\ req[s].pc = "done"
        /\ IF cm.name # "amend" /\ cm.opts.dryRun
           THEN cm' = [c EXCEPT !.pc = "done"] /\ repo' = repo
           ELSE IF c.usedLocal /\ ~cm.opts.yes
           THEN cm' = [c EXCEPT !.pc = "confirm"] /\ repo' = repo
           ELSE Commit(c)
        /\ UNCHANGED <<env, cacheEnabled, cache, now, req, prev, insCount, ncalls, ticks, lg, sg>>

\* confirmCommit: the user answers the question 'Proceed with this commit?'
Answer(answer) ==
    LET trimmed == [i \in 1..Len(Trim(Expand(answer))) |->
                       ToLowerChar(Trim(Expand(answer))[i])]
        confirmed == trimmed \in {<< >>, <<"y">>, <<"y", "e", "s">>}
    IN  /\ cm.pc = "confirm"
        /\ IF confirmed THEN Commit([cm EXCEPT !.confirmed = "yes"])
           ELSE cm' = [cm EXCEPT !.pc = "done", !.confirmed = "no"] /\ repo' = repo
        /\ UNCHANGED <<env, cacheEnabled, cache, now, req, prev, insCount, ncalls, ticks, lg, sg>>

\* git.push() of the online command returns
PushReturns ==
    /\ cm.pc = "push"
    /\ repo' = GitPush(repo)
    /\ cm' = [cm EXCEPT !.pc = "done"]
    /\ UNCHANGED <<env, cacheEnabled, cache, now, req, prev, insCount, ncalls, ticks, lg, sg>>

\* git.push() throws: without --set-upstream a warning, or handleError
PushThrows ==
    /\ cm.pc = "push"
    /\ cm' = [cm EXCEPT !.pc = "done", !.ret = [error |-> "push"]]
    /\ UNCHANGED <<env, cacheEnabled, cache, now, req, prev, insCount, ncalls, ticks, lg, sg, repo>>

\* getOpts(), and the --edit of amend, which reads neither --all nor
\* --dry-run nor --amend
CommandOptions(name) ==
    { [provider |-> "auto", model |-> "", conventional |-> FALSE, body |-> FALSE,
       all |-> a, dryRun |-> d, yes |-> y, amend |-> am, edit |-> e] :
      a \in IF name = "amend" THEN {FALSE} ELSE BOOLEAN,
      d \in IF name = "amend" THEN {FALSE} ELSE BOOLEAN,
      y \in BOOLEAN,
      am \in IF name = "amend" THEN {FALSE} ELSE BOOLEAN,
      e \in IF name = "amend" THEN BOOLEAN ELSE {FALSE} }

Answers ==
    {Lit(<< >>), Lit(<<"y">>), Lit(<<" ", "Y", "e", "s", NL>>), Lit(<<"n">>),
     Lit(<<"y", "e", "s", "!">>)}

InitCommit ==
    /\ env \in {{}, {"gemini"}}
    /\ cacheEnabled = TRUE
    /\ cache = << >>
    /\ now = 0
    /\ req = [s \in Slots |-> IdleReq]
    /\ prev = Null
    /\ insCount = 0
    /\ ncalls = 0
    /\ ticks = 0
    /\ lg = LegacyIdle
    /\ sg = SuggestIdle
    /\ repo \in { [History(n) EXCEPT !.unstaged = {"a"}] : n \in 0..1 }
    /\ cm = CmdIdle

NextCommit ==
    \/ \E name \in {"local", "online", "amend"} :
          \E o \in CommandOptions(name) : CommandStops(name, o)
    \/ \E s \in Slots, name \in {"local", "online", "amend"} :
          \E o \in CommandOptions(name) : CommandGenerates(s, name, o)
    \/ \E s \in Slots : CommandResult(s)
    \/ \E answer \in Answers : Answer(answer)
    \/ PushReturns
    \/ PushThrows
    \/ \E s \in Slots, raw \in {TextWithBody} : RemoteReturns(s, raw)
    \/ \E s \in Slots : RemoteThrows(s)
    \/ \E s \in Slots : LocalStep(s)

SpecCommit == InitCommit /\ [][NextCommit]_vars

(***************************************************************************)
(* SpecRace: two requests on the one manager of bin/lib/ai/interface.js,   *)
(* made by two tool calls that the server handles without waiting for each *)
(* other: each may begin while the other awaits its backend.  The cache is *)
(* empty or full.                                                          *)
(***************************************************************************)
RaceSlots == {"s1", "s2"}

\* a tool call begins its request
Start(s, diff, opts) ==
    /\ req[s].pc = "idle"
    /\ Begin(s, diff, opts)
    /\ UNCHANGED <<sg, repo, cm>>

InitRace ==
    /\ env \in {{}, {"gemini"}}
    /\ cacheEnabled \in BOOLEAN
    /\ cache \in {<< >>, Filled(maxCacheSize)}
    /\ LastFill(cache, Len(cache))
    /\ now = 0
    /\ req = [s \in RaceSlots |-> IdleReq]
    /\ prev = Null
    /\ insCount = Len(cache)
    /\ ncalls = 0
    /\ ticks = 0
    /\ lg = LegacyIdle
    /\ sg = SuggestIdle
    /\ repo = EmptyRepo
    /\ cm = CmdIdle

NextRace ==
    \/ \E s \in RaceSlots, diff \in {DiffLongB, DiffLongC, DiffSmall},
          opts \in {Opt("auto", "", FALSE, FALSE), Opt("none", "", FALSE, FALSE)} :
          Start(s, diff, opts)
    \/ \E s \in RaceSlots, raw \in {TextWithBody, TextMarkdown} : RemoteReturns(s, raw)
    \/ \E s \in RaceSlots : RemoteThrows(s)
    \/ \E s \in RaceSlots : LocalStep(s)
    \/ \E d \in {CacheFreshMs} : Tick(d)

SpecRace == InitRace /\ [][NextRace]_vars

(***************************************************************************)
(* SpecAged: a process whose cache holds the entries of 99 requests made   *)
(* at time 0 and in which, an hour later, the first of them was made       *)
(* again: its entry was stale, was generated anew and written under the    *)
(* key the Map already held, so it is the first key with the latest        *)
(* timestamp.                                                              *)
(***************************************************************************)
Aged ==
    setCache(TRUE, Filled(maxCacheSize - 1), FillerEntry(1).key, FillerEntry(1).result,
             TRUE, CacheFreshMs, maxCacheSize)

AgedDiffs == {FillerDiff(2), DiffSmall, DiffLongB}

InitAged ==
    /\ env \in FullEnvs
    /\ cacheEnabled = TRUE
    /\ cache = Aged
    /\ now = CacheFreshMs
    /\ req = [s \in Slots |-> IdleReq]
    /\ prev = Null
    /\ insCount = maxCacheSize - 1
    /\ ncalls = 0
    /\ ticks = 0
    /\ lg = LegacyIdle
    /\ sg = SuggestIdle
    /\ repo = EmptyRepo
    /\ cm = CmdIdle

NextAged ==
    \/ \E s \in Slots, diff \in AgedDiffs, opts \in FullOptions : Call(s, diff, opts)
    \/ \E s \in Slots, raw \in FullTexts : RemoteReturns(s, raw)
    \/ \E s \in Slots : RemoteThrows(s)
    \/ \E s \in Slots : LocalStep(s)
    \/ \E d \in ClockSteps : Tick(d)

SpecAged == InitAged /\ [][NextAged]_vars

(***************************************************************************)
(* The claims about AIProviderManager.generateCommitMessage                *)
(***************************************************************************)
(* SpecCore: in a repository with commits, staged and unstaged changes, a  *)
(* stash and an upstream branch, one call of generateCommitMessage(rawDiff)*)
(* of gims 0.4.3 and one call of generateMultipleSuggestions, which awaits *)
(* generateCommitMessage of the provider manager.                          *)
(***************************************************************************)
CoreRepo ==
    [commits |-> <<[hash |-> 1, message |-> Lit(<<"i", "n", "i", "t">>)],
                   [hash |-> 2, message |-> Lit(<<"f", "i", "x">>)]>>,
     staged |-> {"a"}, unstaged |-> {"b"},
     remote |-> <<[hash |-> 1, message |-> Lit(<<"i", "n", "i", "t">>)]>>,
     stashes |-> 1, objects |-> 2]

InitCore ==
    /\ env \in {{}, {"gemini"}}
    /\ cacheEnabled \in BOOLEAN
    /\ cache = << >>
    /\ now = 0
    /\ req = [s \in Slots |-> IdleReq]
    /\ prev = Null
    /\ insCount = 0
    /\ ncalls = 0
    /\ ticks = 0
    /\ lg = LegacyIdle
    /\ sg = SuggestIdle
    /\ repo = CoreRepo
    /\ cm = CmdIdle

NextCore ==
    \/ \E rawDiff \in {DiffSmall, Rep("x", MAX_CHARS + 1)} : LegacyStart(rawDiff)
    \/ \E files \in {<<FileStat(Lit(<<"b">>), 0, 120)>>,
                     <<FileStat(Rep("p", MAX_CHARS), 1, 2)>>} : SummaryReturns(files)
    \/ SummaryThrows
    \/ \E status \in {GitStatus(<<Lit(<<"a">>)>>, << >>, << >>, 1)} : StatusReturns(status)
    \/ StatusThrows
    \/ \E raw \in {TextWithBody} : LegacyBackendReturns(raw)
    \/ \E code \in {"other"} : LegacyBackendThrows(code)
    \/ \E diff \in {DiffSmall}, options \in {Opt("auto", "", FALSE, FALSE)},
          count \in {1, 3} : SuggestStart(diff, options, count)
    \/ \E s \in Slots : SuggestCall(s)
    \/ \E s \in Slots : SuggestCollect(s)
    \/ SuggestReturn
    \/ \E s \in Slots, raw \in {TextWithBody} : RemoteReturns(s, raw)
    \/ \E s \in Slots : RemoteThrows(s)
    \/ \E s \in Slots : LocalStep(s)

SpecCore == InitCore /\ [][NextCore]_vars

(***************************************************************************)
Started(r) == r.pc # "idle"

Returned(r) == r.pc = "done"

\* the attempts of r that went to a remote backend
RemoteAttempts(r) == { i \in 1..Len(r.attempts) : r.attempts[i].provider \in Remotes }

\* C1: whatever the diff, the options and the backends' answers (a text, an
\* empty text, an exception), a request never leaves the provider chain
\* without a provider left to try, and it returns a record { message,
\* usedLocal } whose message is not empty.
C1_AlwaysReturnsMessage ==
    \A s \in DOMAIN req :
        /\ req[s].pc = "chain" => req[s].idx \in 1..Len(req[s].chain)
        /\ Returned(req[s]) =>
              /\ StrLen(req[s].ret.message) > 0
              /\ req[s].ret.usedLocal \in BOOLEAN

\* C1's case: a backend answered with an empty text and the request
\* returned the normaliser's default, not marked local.
C1_Witness ==
    \E s \in DOMAIN req :
        /\ Returned(req[s]) /\ ~req[s].hit
        /\ req[s].attempts[Len(req[s].attempts)].provider \in Remotes
        /\ req[s].attempts[Len(req[s].attempts)].text = EmptyStr
        /\ req[s].ret = [message |-> Lit(DefaultCode), usedLocal |-> FALSE]

\* C2: with no credential set and provider "auto", a request asks no remote
\* backend, and it returns a message that is not empty, marked usedLocal.
C2_NoCredentialIsLocal ==
    \A s \in DOMAIN req :
        (Started(req[s]) /\ env = {} /\ req[s].opts.provider = "auto") =>
            /\ RemoteAttempts(req[s]) = {}
            /\ Returned(req[s]) =>
                  /\ StrLen(req[s].ret.message) > 0
                  /\ req[s].ret.usedLocal = TRUE

\* C2's case: such a request came back from the local heuristic.
C2_Witness ==
    \E s \in DOMAIN req :
        /\ Returned(req[s]) /\ env = {} /\ req[s].opts.provider = "auto"
        /\ ~req[s].hit
        /\ req[s].attempts = <<[provider |-> "local", ok |-> TRUE,
                                text |-> req[s].ret.message, tokens |-> 0]>>

\* the order of preference the documentation gives for "auto"
PreferenceOrder == <<"gemini", "openai", "groq">>

\* the chain "auto" stands for: the configured backends in that order, then
\* the local heuristic
AutoChain == SelectSeq(PreferenceOrder, LAMBDA p : p \in env) \o <<"local">>

\* C3: with two credentials set, provider "auto" and a cache miss: once the
\* first backend of the order has thrown, the second is the next one asked,
\* it is asked once, and when it answers the request returns its
\* normalised text marked usedLocal: false.
C3_SecondBackendOnce ==
    \A s \in DOMAIN req :
        LET r == req[s]
        IN  (/\ Started(r) /\ Cardinality(env) = 2 /\ r.opts.provider = "auto"
             /\ ~r.hit /\ Len(r.attempts) >= 1 /\ ~r.attempts[1].ok) =>
                /\ r.attempts[1].provider = AutoChain[1]
                /\ Cardinality({ i \in 1..Len(r.attempts) :
                                   r.attempts[i].provider = AutoChain[2] }) <= 1
                /\ Len(r.attempts) >= 2 => r.attempts[2].provider = AutoChain[2]
                /\ (Len(r.attempts) >= 2 /\ r.attempts[2].ok) =>
                      /\ Returned(r)
                      /\ Len(r.attempts) = 2
                      /\ r.ret = [message |-> cleanCommitMessage(r.attempts[2].text,
                                                                 r.opts.body),
                                  usedLocal |-> FALSE]

\* C3's case: the first backend threw, the second answered.
C3_Witness ==
    \E s \in DOMAIN req :
        /\ Returned(req[s]) /\ Cardinality(env) = 2 /\ req[s].opts.provider = "auto"
        /\ Len(req[s].attempts) = 2
        /\ ~req[s].attempts[1].ok /\ req[s].attempts[2].ok
        /\ req[s].attempts[2].provider \in Remotes
        /\ req[s].ret.usedLocal = FALSE

\* C4: under provider "auto" the attempts of a request are an initial part
\* of gemini, openai, groq (those configured) and then local, so none is
\* made twice; every attempt but the last has failed; and a successful
\* attempt ends the request.
C4_ChainOrder ==
    \A s \in DOMAIN req :
        LET r == req[s]
        IN  (Started(r) /\ r.opts.provider = "auto" /\ ~r.hit) =>
                /\ Len(r.attempts) <= Len(AutoChain)
                /\ \A i \in 1..Len(r.attempts) :
                      /\ r.attempts[i].provider = AutoChain[i]
                      /\ i < Len(r.attempts) => ~r.attempts[i].ok
                      /\ r.attempts[i].ok => (Returned(r) /\ i = Len(r.attempts))

\* C4's case: all three backends were asked, in order, and the third
\* answered.
C4_Witness ==
    \E s \in DOMAIN req :
        /\ Returned(req[s]) /\ req[s].opts.provider = "auto"
        /\ Len(req[s].attempts) = 3
        /\ req[s].attempts[1].provider = "gemini" /\ ~req[s].attempts[1].ok
        /\ req[s].attempts[2].provider = "openai" /\ ~req[s].attempts[2].ok
        /\ req[s].attempts[3].provider = "groq" /\ req[s].attempts[3].ok

\* the request before r had the change content and the conventional and
\* body options of r
SameRequest(r) ==
    /\ r.before # Null
    /\ r.before.diff = r.diff
    /\ r.before.opts.conventional = r.opts.conventional
    /\ r.before.opts.body = r.opts.body

\* the age, when r began, of the cache entry the request before r read or
\* wrote
EntryAge(r) == r.t0 - r.before.entryTime

\* C5: with caching enabled, a request with the change content and the
\* conventional and body options of the request before it returns that
\* request's message without asking any provider if the entry is less than
\* an hour old, and runs the provider chain again if it is not.
C5_CacheWithinWindow ==
    \A s \in DOMAIN req :
        LET r == req[s]
        IN  (Returned(r) /\ cacheEnabled /\ SameRequest(r)) =>
                /\ EntryAge(r) < CacheFreshMs =>
                      (r.ret.message = r.before.ret.message /\ r.attempts = << >>)
                /\ EntryAge(r) >= CacheFreshMs => r.attempts # << >>

\* C5's case: the same request again, a millisecond before the hour is
\* over, served from the cache.
C5_Witness ==
    \E s \in DOMAIN req :
        /\ Returned(req[s]) /\ cacheEnabled /\ SameRequest(req[s])
        /\ EntryAge(req[s]) = CacheFreshMs - 1
        /\ req[s].hit /\ req[s].attempts = << >>
        /\ req[s].ret.message = req[s].before.ret.message

\* the insertion numbers of the entries of cache c
Insertions(c) == { c[i].ins : i \in 1..Len(c) }

\* a step in which a request writes its result under a key the cache does
\* not hold while the cache is full
WriteBeyondBound ==
    \E s \in DOMAIN req :
        /\ req[s].pc = "chain" /\ req'[s].pc = "done"
        /\ Len(cache) = maxCacheSize
        /\ req[s].key \notin CacheKeys(cache)

\* C6: the cache never holds more than 100 entries; no step removes more
\* than one entry; a write that would exceed the bound removes exactly one;
\* an entry removed is the one inserted before all others; and the step in
\* which a request reads the cache (hit, stale or miss) leaves the cache,
\* and with it the order of eviction, as it was.
C6_BoundedOldestFirst ==
    /\ [](Len(cache) <= maxCacheSize)
    /\ [][LET removed == Insertions(cache) \ Insertions(cache')
          IN  /\ Cardinality(removed) <= 1
              /\ WriteBeyondBound =>
                    (Cardinality(removed) = 1 /\ Len(cache') = maxCacheSize)
              /\ \A x \in removed : \A y \in Insertions(cache) : x <= y
              /\ ncalls' # ncalls => cache' = cache]_vars

\* C6's case: two requests have read the cache, it is full, the write of a
\* new key has evicted the entry inserted first, and the entry inserted
\* second is now the oldest while the newest sits at the end.
C6_Witness ==
    /\ Len(cache) = maxCacheSize
    /\ insCount > maxCacheSize
    /\ 1 \notin Insertions(cache)
    /\ cache[1].ins = 2
    /\ cache[Len(cache)].ins = insCount
    /\ ncalls = 2

\* C7: with caching disabled the cache stays empty and every request runs
\* the provider chain.
C7_CacheDisabled ==
    ~cacheEnabled =>
        /\ cache = << >>
        /\ \A s \in DOMAIN req : Returned(req[s]) => (~req[s].hit /\ req[s].attempts # << >>)

\* C7's case: the request before was the same in every argument, and the
\* chain ran again.
C7_Witness ==
    \E s \in DOMAIN req :
        /\ ~cacheEnabled /\ Returned(req[s]) /\ req[s].before # Null
        /\ req[s].before.diff = req[s].diff /\ req[s].before.opts = req[s].opts
        /\ req[s].attempts # << >>

\* r and the request before it agree on the first 1000 characters of the
\* change content and on the conventional and body options
SameFingerprintData(r) ==
    /\ Prefix(r.before.diff, 1000) = Prefix(r.diff, 1000)
    /\ r.before.opts.conventional = r.opts.conventional
    /\ r.before.opts.body = r.opts.body

\* C8: two requests have the same cache key exactly when they agree on the
\* first 1000 characters of the change content and on the conventional and
\* body options; and then, with caching enabled and the entry less than an
\* hour old, the second returns the message and the usedLocal flag of the
\* first, whatever provider or model it asks for.
C8_KeyIgnoresProvider ==
    \A s \in DOMAIN req :
        LET r == req[s]
        IN  (Returned(r) /\ r.before # Null) =>
                /\ SameFingerprintData(r) <=>
                      r.key = getCacheKey(r.before.diff, r.before.opts.conventional,
                                          r.before.opts.body)
                /\ (cacheEnabled /\ SameFingerprintData(r) /\ EntryAge(r) < CacheFreshMs) =>
                      (r.hit /\ r.ret = r.before.ret)

\* C8's case: another change content with the same first 1000 characters,
\* another provider and another model, served the first request's result.
C8_Witness ==
    \E s \in DOMAIN req :
        /\ Returned(req[s]) /\ req[s].before # Null /\ req[s].hit
        /\ req[s].before.diff # req[s].diff
        /\ req[s].before.opts.provider # req[s].opts.provider
        /\ req[s].before.opts.model # req[s].opts.model
        /\ req[s].ret = req[s].before.ret

\* C9: every prompt a request hands to a remote backend is estimated at no
\* more than 100,000 tokens, in the provider manager and in the 0.4.3
\* function alike.
C9_PromptWithinBudget ==
    /\ \A s \in DOMAIN req : \A i \in RemoteAttempts(req[s]) :
          req[s].attempts[i].tokens <= MAX_TOKENS
    /\ lg.provider # "none" => estimateTokens(lg.prompt) <= MAX_TOKENS

\* C10: a call whose raw diff is estimated within the budget has strategy
\* "full" and the raw diff itself as content, and has asked the repository
\* for neither the summary nor the status.
C10_FullWithinBudget ==
    (lg.pc # "idle" /\ estimateTokens(lg.rawDiff) <= MAX_TOKENS) =>
        /\ lg.strategy = "full"
        /\ lg.content = lg.rawDiff
        /\ lg.queries = << >>

\* C10's case: a raw diff estimated at exactly 100,000 tokens, whose prompt
\* the final check then turns away.
C10_Witness ==
    /\ lg.pc = "done"
    /\ estimateTokens(lg.rawDiff) = MAX_TOKENS
    /\ lg.strategy = "full" /\ lg.content = lg.rawDiff /\ lg.queries = << >>
    /\ lg.ret = UpdateMultipleFiles

(***************************************************************************)
(* The claims about the content reducer of gims 0.4.3                      *)
(***************************************************************************)
\* the reduction of the call is over
Reduced == lg.pc \in {"backend", "done"}

\* C11: a call whose raw diff is estimated over the budget and whose
\* summary, one line "file: +insertions -deletions" per file, is not, ends
\* the reduction with strategy "summary" and that summary as content.
C11_SummaryTier ==
    (/\ Reduced
     /\ estimateTokens(lg.rawDiff) > MAX_TOKENS
     /\ lg.summary # Null
     /\ estimateTokens(lg.summary) <= MAX_TOKENS) =>
        /\ lg.strategy = "summary"
        /\ lg.content = lg.summary
        /\ lg.queries = <<"diffSummary">>

\* C11's case: the summary is estimated at exactly 100,000 tokens.
C11_Witness ==
    /\ Reduced
    /\ estimateTokens(lg.rawDiff) > MAX_TOKENS
    /\ lg.summary # Null
    /\ estimateTokens(lg.summary) = MAX_TOKENS
    /\ lg.strategy = "summary"

\* C12: a call whose status view is estimated over the budget ends the
\* reduction with strategy "truncated" and a content of exactly
\* 100,000 * 4 - 1000 characters plus the length of the truncation mark:
\* the first 399,000 characters of the status view and then the mark.
C12_TruncatedTier ==
    (Reduced /\ lg.status # Null /\ estimateTokens(lg.status) > MAX_TOKENS) =>
        /\ lg.strategy = "truncated"
        /\ StrLen(lg.content) = 100000 * 4 - 1000 + StrLen(TruncatedMark)
        /\ lg.content = Concat(Prefix(lg.status, 399000), TruncatedMark)

\* C12's case: a status view of more than 400,000 characters, cut to
\* 399,016.
C12_Witness ==
    /\ Reduced
    /\ lg.status # Null /\ StrLen(lg.status) > 400000
    /\ lg.strategy = "truncated"
    /\ StrLen(lg.content) = 399016

\* C13: once git.diffSummary() or git.status() has thrown, the call has
\* gone on to the end of the reduction (nothing is thrown to the caller),
\* with strategy "fallback" and the content "Large changes across multiple
\* files".
C13_QueryFailureFallsBack ==
    lg.threw # {} =>
        /\ Reduced
        /\ lg.strategy = "fallback"
        /\ lg.content = LargeChanges
        /\ StrLen(lg.content) = 35

\* C13's case: the summary was over the budget and git.status() threw.
C13_Witness ==
    /\ lg.threw = {"status"}
    /\ lg.queries = <<"diffSummary", "status">>
    /\ lg.strategy = "fallback"
    /\ lg.content = LargeChanges

(***************************************************************************)
(* The claims about AIProviderManager.cleanCommitMessage                   *)
(***************************************************************************)
\* r returned the normalised text of a backend
Normalised(r) ==
    /\ Returned(r) /\ ~r.hit
    /\ r.attempts[Len(r.attempts)].provider \in Remotes

\* the text the backend of r answered with
RawText(r) == r.attempts[Len(r.attempts)].text

\* C14: the message cleanCommitMessage made of a backend's text is a fixed
\* point of cleanCommitMessage under the same options.
C14_NormalizerIdempotent ==
    \A s \in DOMAIN req :
        Normalised(req[s]) =>
            cleanCommitMessage(req[s].ret.message, req[s].opts.body) = req[s].ret.message

FixBugInAuthJs ==
    <<"F","i","x"," ","b","u","g"," ","i","n"," ","a","u","t","h",".","j","s">>

\* C15: the text "**Fix bug** in BQ auth.js BQ" (BQ the backquote) is
\* normalised to "Fix bug in auth.js", with no asterisk and no backquote left.
C15_MarkupStripped ==
    \A s \in DOMAIN req :
        (Normalised(req[s]) /\ RawText(req[s]) = TextFixBug) =>
            /\ Expand(req[s].ret.message) = FixBugInAuthJs
            /\ \A i \in 1..Len(req[s].ret.message) : req[s].ret.message[i].c \notin {"*", BQ}

StructuralPunctuation == {" ", ":", ",", ".", "!", ";"}

\* the subject of message m: its characters up to the first line feed
SubjectOf(m) ==
    LET p == Expand(m)
        nls == { k \in 1..Len(p) : p[k] = NL }
    IN  IF nls = {} THEN p ELSE SubSeq(p, 1, MinOf(nls) - 1)

\* C16: the subject cleanCommitMessage makes of a backend's text is not
\* empty, is one line (without options.body the message is the subject), and
\* neither its first nor its last character is a space, colon, comma,
\* period, exclamation mark or semicolon.
C16_SubjectWellFormed ==
    \A s \in DOMAIN req :
        Normalised(req[s]) =>
            LET subject == SubjectOf(req[s].ret.message)
            IN  /\ subject # << >>
                /\ ~req[s].opts.body => Lit(subject) = req[s].ret.message
                /\ subject[1] \notin StructuralPunctuation
                /\ subject[Len(subject)] \notin StructuralPunctuation

(***************************************************************************)
(* The claims about AIProviderManager.generateLocalHeuristic               *)
(***************************************************************************)
\* r returned the message of the local heuristic
Heuristic(r) ==
    /\ Returned(r) /\ ~r.hit
    /\ r.attempts[Len(r.attempts)].provider = "local"

FeatAdd ==
    Lit(<<"f","e","a","t",":"," ","a","d","d"," ">>)

\* C17: for the diff of a single new file, app.js with the line
\* "export function foo(){}" first, and nothing removed, the local heuristic
\* in conventional mode returns a message that begins "feat: add ".
C17_NewFileIsFeat ==
    \A s \in DOMAIN req :
        (Heuristic(req[s]) /\ req[s].diff \in NewFileDiffs /\ req[s].opts.conventional) =>
            Prefix(req[s].ret.message, 10) = FeatAdd

ChoreRemoveUnused ==
    Lit(<<"c","h","o","r","e",":"," ","r","e","m","o","v","e"," ","u","n",
      "u","s","e","d"," ","c","o","d","e">>)

RemoveUnusedCapital ==
    Lit(<<"R","e","m","o","v","e"," ","u","n","u","s","e","d"," ","c","o",
      "d","e">>)

\* C18: for the diff of one file with 25 lines removed and 2 added, and none
\* of the words test, spec, README, doc in it, the local heuristic returns
\* "chore: remove unused code" in conventional mode and "Remove unused code"
\* otherwise.
C18_RemovalIsChore ==
    \A s \in DOMAIN req :
        (Heuristic(req[s]) /\ req[s].diff = ModifyDiff(2, 25)) =>
            req[s].ret.message = IF req[s].opts.conventional THEN ChoreRemoveUnused
                                 ELSE RemoveUnusedCapital

\* C18's case: that diff, in conventional mode.
C18_Witness ==
    \E s \in DOMAIN req :
        /\ Heuristic(req[s]) /\ req[s].diff = ModifyDiff(2, 25)
        /\ req[s].opts.conventional
        /\ ~Includes(req[s].diff, WordTest) /\ ~Includes(req[s].diff, WordDoc)
        /\ req[s].ret = [message |-> ChoreRemoveUnused, usedLocal |-> TRUE]

(***************************************************************************)
(* The claims about AIProviderManager.generateMultipleSuggestions          *)
(***************************************************************************)
\* C19: generateMultipleSuggestions, once called, is in its loop, awaiting
\* one generateCommitMessage, or has returned; for a count of at least 1 it
\* returns a list of at least 1 and at most min(count, 3) strings that are
\* not empty and differ from one another; and when no variant gave a
\* message it returns the list of the one string "Update project files".
C19_SuggestionsDistinct ==
    /\ sg.pc \in {"idle", "loop", "await", "done"}
    /\ sg.pc = "await" => \E s \in DOMAIN req : req[s].pc \in {"chain", "done"}
    /\ sg.pc = "done" =>
          /\ sg.count >= 1 =>
                /\ Len(sg.ret) >= 1
                /\ Len(sg.ret) <= (IF sg.count < 3 THEN sg.count ELSE 3)
          /\ \A j \in 1..Len(sg.ret) :
                /\ sg.ret[j] \in Seq([c : STRING, n : Nat])
                /\ Len(sg.ret[j]) > 0
          /\ \A j, k \in 1..Len(sg.ret) : j # k => sg.ret[j] # sg.ret[k]
          /\ Len(sg.suggestions) = 0 => sg.ret = <<UpdateProjectFiles>>

\* C19's case: three variants were asked for, two of them gave the same
\* message, and two suggestions came back.
C19_Witness ==
    /\ sg.pc = "done"
    /\ sg.count = 3 /\ sg.i = 3
    /\ Len(sg.ret) = 2

(***************************************************************************)
(* The claims about the provider chain of a named preference               *)
(***************************************************************************)
\* C20: a request that names the provider p, one of gemini, openai, groq,
\* walks the chain p, local if the credential of p is set and the chain
\* local if it is not, whatever other credentials are set; a request with
\* provider "none" walks the chain local; and no request of either kind
\* asks a remote backend other than p.
C20_NamedProviderOnly ==
    \A s \in DOMAIN req :
        LET r == req[s]
            p == r.opts.provider
        IN  (Started(r) /\ ~r.hit) =>
                /\ p \in {"gemini", "openai", "groq"} =>
                      /\ r.chain = IF p \in env THEN <<p, "local">> ELSE <<"local">>
                      /\ \A i \in RemoteAttempts(r) : r.attempts[i].provider = p
                /\ p = "none" =>
                      /\ r.chain = <<"local">>
                      /\ RemoteAttempts(r) = {}

\* C20's case: groq is named while the credentials of gemini and groq are
\* set, and groq alone was asked.
C20_Witness ==
    \E s \in DOMAIN req :
        /\ Returned(req[s]) /\ req[s].opts.provider = "groq"
        /\ {"gemini", "groq"} \subseteq env
        /\ Len(req[s].attempts) = 1
        /\ req[s].attempts[1].provider = "groq" /\ req[s].attempts[1].ok

(***************************************************************************)
(* The claim about the repository during generation                        *)
(***************************************************************************)
\* C21: while generateCommitMessage, generateMultipleSuggestions and the
\* content reducer run, the only queries sent to the repository are read
\* queries (status, diff, diff summary), and no step changes the staged
\* state, the commits, the stashes or the upstream branch.
C21_CoreReadsOnly ==
    /\ [](\A k \in 1..Len(lg.queries) : lg.queries[k] \in GitReads)
    /\ [][repo' = repo]_vars

\* C21's case: the reducer has asked for the summary and for the status and
\* returned, generateMultipleSuggestions has returned three messages of
\* which a backend wrote one, and the repository is the one they began in.
C21_Witness ==
    /\ lg.pc = "done" /\ lg.queries = <<"diffSummary", "status">>
    /\ sg.pc = "done" /\ Len(sg.ret) >= 2
    /\ \E s \in DOMAIN req : Returned(req[s]) /\ ~req[s].ret.usedLocal
    /\ repo = CoreRepo

(***************************************************************************)
(* The claim about the numbering of commits                                *)
(***************************************************************************)
\* C22: the number that the list command prints next to a commit resolves,
\* through resolveCommit, to that commit, for every history and every limit.
C22_ListNumbersResolve ==
    (cm.name \in {"list", "branch"}) =>
        \A i \in 1..Len(cm.out) :
            /\ resolveCommit(repo, cm.out[i].number) = [hash |-> cm.out[i].hash]
            /\ (cm.pc = "done" /\ cm.input = cm.out[i].number) =>
                   cm.ret = [hash |-> cm.out[i].hash]

(***************************************************************************)
(* The claim about test and documentation paths                            *)
(***************************************************************************)
\* the message of type and subject in the format the option conventional
\* asks for
Formatted(type, subject, conventional) ==
    IF conventional THEN ConcatAll(<<type, Lit(<<":", " ">>), subject>>)
    ELSE Capitalize(subject)

\* C23: whatever the numbers of added and removed lines, the local heuristic
\* answers a diff that touches a test path with "test: update tests" and one
\* that touches a documentation path with "docs: update documentation" in
\* conventional mode, and with the capitalized subject alone otherwise.
C23_PathsDecideType ==
    \A s \in DOMAIN req :
        LET r == req[s]
        IN  Heuristic(r) =>
                /\ r.diff \in PathDiffs(TestPath) =>
                      r.ret.message = Formatted(TypeTest, SubjUpdateTests, r.opts.conventional)
                /\ r.diff \in PathDiffs(DocsPath) =>
                      r.ret.message = Formatted(TypeDocs, SubjUpdateDocs, r.opts.conventional)

(***************************************************************************)
(* The claim about the status tier                                         *)
(***************************************************************************)
\* the paths of a category of the status that the content names
Listed(paths) == IF Len(paths) < 10 THEN Len(paths) ELSE 10

\* String.prototype.endsWith(p), on the characters
EndsWith(s, p) ==
    /\ Len(s) >= Len(p)
    /\ SubSeq(s, Len(s) - Len(p) + 1, Len(s)) = p

\* C24: when the content is the status view, no category list names a path
\* beyond the first 10 of its category, and if the status has more than 30
\* files the content ends with the number of changed files it does not name.
C24_StatusListsAndCount ==
    (lg.pc \in {"backend", "done"} /\ lg.strategy = "status") =>
        LET st == lg.answer
            listed == Listed(st.modified) + Listed(st.created) + Listed(st.deleted)
        IN  /\ \A paths \in {st.modified, st.created, st.deleted} :
                  \A i \in 1..Len(paths) : i > 10 => ~Includes(lg.content, paths[i])
            /\ st.files > 30 =>
                  EndsWith(Expand(lg.content),
                           Expand(ConcatAll(<<AndMore, NumToStr(st.files - listed), MoreFiles>>)))

(***************************************************************************)
(* The claim about termination                                             *)
(***************************************************************************)
\* C25: if every call of a remote backend returns or throws, every request
\* returns a result; and a request that has not returned stands at a member
\* of its chain, which is finite and ends with "local", having asked no
\* backend twice.
C25_EveryRequestReturns ==
    /\ \A s \in Slots : (req[s].pc = "chain") ~> (req[s].pc = "done")
    /\ [](\A s \in Slots :
             LET r == req[s]
             IN  r.pc = "chain" =>
                     /\ r.idx \in 1..Len(r.chain)
                     /\ r.chain[Len(r.chain)] = "local"
                     /\ Len(r.attempts) = r.idx - 1
                     /\ \A i \in 1..Len(r.attempts) : r.attempts[i].provider = r.chain[i])

\* C25's case: three backends threw one after the other and the request
\* returned the local heuristic's message.
C25_Witness ==
    \E s \in DOMAIN req :
        /\ Returned(req[s]) /\ Len(req[s].attempts) = 4
        /\ \A i \in 1..3 : ~req[s].attempts[i].ok
        /\ req[s].ret.usedLocal

(***************************************************************************)
(* The claim about the confirmation of heuristic messages                  *)
(***************************************************************************)
\* C26: in the commands local, online and amend --edit, a step that commits,
\* amends or pushes with a message marked usedLocal is taken only with
\* --yes or after the user confirmed; and when the user has declined, the
\* command is over and the commits and the upstream branch are as the
\* command found them.
C26_HeuristicNeedsConsent ==
    /\ [][(repo'.commits # repo.commits \/ repo'.remote # repo.remote) =>
             (cm'.usedLocal => (cm'.opts.yes \/ cm'.confirmed = "yes"))]_vars
    /\ [](cm.confirmed = "no" =>
             /\ cm.pc = "done"
             /\ repo.commits = cm.start.commits
             /\ repo.remote = cm.start.remote)

\* C26's case: the second command gets the heuristic's message from the
\* cache, the user declines, and nothing is committed.
C26_Witness ==
    /\ cm.pc = "done" /\ cm.n = 2 /\ cm.usedLocal /\ cm.confirmed = "no"
    /\ \E s \in DOMAIN req : req[s].hit /\ req[s].ret.usedLocal
    /\ repo.commits = cm.start.commits

(***************************************************************************)
(* The claim about interleaved requests                                    *)
(***************************************************************************)
\* the places of the cache that hold the key k
Holding(k) == { i \in 1..Len(cache) : cache[i].key = k }

\* C27: when two interleaved requests for one fingerprint have both
\* returned and caching is enabled, the cache holds exactly one entry for
\* the fingerprint, its message is the message one of the two returned, and
\* the cache holds no more than 100 entries.
C27_RaceKeepsCacheSound ==
    /\ Len(cache) <= maxCacheSize
    /\ \A s, t \in DOMAIN req :
          (/\ cacheEnabled
           /\ s # t /\ Returned(req[s]) /\ Returned(req[t]) /\ req[s].key = req[t].key) =>
              /\ Cardinality(Holding(req[s].key)) = 1
              /\ \A i \in Holding(req[s].key) :
                    cache[i].result \in {req[s].ret.message, req[t].ret.message}

\* C27's case: both requests missed, both asked the backend, which gave two
\* different answers, and both wrote.
C27_Witness ==
    \E s, t \in DOMAIN req :
        /\ s # t /\ Returned(req[s]) /\ Returned(req[t]) /\ req[s].key = req[t].key
        /\ ~req[s].hit /\ ~req[t].hit
        /\ ~req[s].ret.usedLocal /\ ~req[t].ret.usedLocal
        /\ req[s].ret.message # req[t].ret.message
        /\ req[s].diff # req[t].diff
        /\ Cardinality(Holding(req[s].key)) = 1

(***************************************************************************)
(* The claims about eviction                                               *)
(***************************************************************************)
\* a step in which a request writes its result under the key k
Writes(s, k) == req[s].pc = "chain" /\ req'[s].pc = "done" /\ req[s].key = k

\* C28: a write under a key the cache already holds removes no entry, and
\* an entry is removed only by the write of a new key into a cache that
\* holds 100 entries.
C28_RewriteEvictsNothing ==
    [][/\ \A s \in DOMAIN req : \A k \in CacheKeys(cache) :
             Writes(s, k) => CacheKeys(cache) \subseteq CacheKeys(cache')
       /\ ~(CacheKeys(cache) \subseteq CacheKeys(cache')) => WriteBeyondBound]_vars

\* the entry of the cache c under the key k
EntryOf(c, k) == c[CacheSlot(c, k)]

\* the keys a step removes from the cache
Evicted == CacheKeys(cache) \ CacheKeys(cache')

WellFormedChain(chain, e) ==
    /\ Len(chain) >= 1
    /\ \A i, j \in 1..Len(chain) : chain[i] = chain[j] => i = j
    /\ chain[Len(chain)] = "local"
    /\ \A i \in 1..(Len(chain) - 1) : chain[i] \in Remotes /\ chain[i] \in e

\* C30: the provider chain of every request that missed the cache, whatever
\* the preference (auto, none, a backend's name or another string) and the
\* credentials configured, is duplicate-free, holds "local" once and last,
\* and otherwise only backends whose credential is configured.
C30_ChainWellFormed ==
    \A s \in DOMAIN req :
        (req[s].pc \in {"chain", "done"} /\ ~req[s].hit) =>
            /\ req[s].chain = buildProviderChain(env, req[s].opts.provider)
            /\ WellFormedChain(req[s].chain, env)

\* C30's case: a preference that names no backend, with the credentials of
\* OpenAI and Groq only: the chain built is OpenAI, then local.
C30_Witness ==
    \E s \in DOMAIN req :
        /\ req[s].pc = "chain" /\ ~req[s].hit
        /\ req[s].opts.provider = "mistral"
        /\ env = {"openai", "groq"}
        /\ req[s].chain = <<"openai", "local">>

=============================================================================
